---- MODULE Spec2Model ----
(***************************************************************************)
(* filesystem-guardian: path validation, attribute sanitization and the    *)
(* mediated invocation of xattr / mdfind / mdls / mdimport.                *)
(*                                                                         *)
(* Strings are sequences of Unicode code points (natural numbers), so that *)
(* null stripping, percent-decoding, NFC composition and the lexical       *)
(* resolution of "." and ".." are computed, character by character, the    *)
(* way the code computes them.                                             *)
(***************************************************************************)
EXTENDS Integers, Sequences, FiniteSets, TLC

VARIABLES
    \* the environment
    cwd,        \* process.cwd(): the directory path.resolve() resolves against
    symlinks,   \* the filesystem's symbolic links: a set of [at, to] records
    \* validatePath called on its own
    filePath,   \* the argument given to validatePath (a JS value)
    outcome,    \* what validatePath(filePath) did: a path returned or an error thrown
    refed,      \* what validatePath did when given its own output again
    pathAllowed, \* what isPathAllowed(filePath) returned (FALSE before the call)
    pc,         \* "idle", "input", "validated", "revalidated", "allowed"
    \* sanitizeAttributes called on its own
    attrs,      \* the list given to sanitizeAttributes (JS values)
    safeAttrs,  \* the list it returned
    apc,        \* "idle", "input", "done"
    \* one call of the xattr service (listXattrs, getXattrs, setXattrs)
    request,        \* the call: [op, filePath, attribute, attrs, createOnly]
    store,          \* the extended attributes of the file: name -> value
    xpc,            \* where the call is
    validatedPath,  \* const validatedPath
    existingAttrs,  \* let existingAttrs (setXattrs)
    attrList,       \* const attrList (getXattrs)
    idx,            \* the position of the for loop in its list (0: not started)
    setNames,       \* const set
    deletedNames,   \* const deleted
    failedItems,    \* const failed: [name, error] records
    attributes,     \* const attributes (getXattrs): [name, value] records
    response,       \* what the call returned or threw to its caller
    listTool,       \* what the xattr tool did when it was last asked for a
                    \* listing: "none" (not asked), "ok", "nosuch", "denied"
    \* one call of the Spotlight service (spotlightSearch, spotlightReindex)
    search,         \* the call: [op, query, scope, limit, attributes, filePath]
    spc,            \* where the call is
    foundPaths,     \* const paths: the lines mdfind wrote
    limitedPaths,   \* const limitedPaths
    truncated,      \* const truncated
    results,        \* const results: what each getFileMetadata call gave
    sresponse,      \* what the call returned or threw to its caller
    \* what the services did
    execLog,        \* the external commands run: [file, args] records
    auditLog,       \* the records given to db.logXattrOperation
    validatedSet,   \* the paths validatePath has returned during the call
    \* a function without side effects called on its own
    \* (sanitizeErrorMessage, parseSpotlightValue, decodeXattrValue)
    fnArg,          \* the argument given to it
    fnResult,       \* what it returned
    fpc,            \* "idle", "input", "done"
    \* setXattrs calls of two HTTP requests in flight on one file
    calls,          \* for each request, the locals of its setXattrs call
    \* the HTTP server (handleRequest)
    rateLimitMap,   \* const rateLimitMap: address -> [count, resetTime]
    clock,          \* Date.now() when the last request was received
    httpRequest,    \* the last request received: [remoteAddress, method, url]
    httpReply,      \* how it was answered: [status, ran]; ran: a handler was run
    opened,         \* for each address, when the request that opened its
                    \* window was received (-1: no window yet)
    passed,         \* for each address, how many requests of its window got
                    \* past the rate limit
    others,         \* how many requests without a remote address were received
    \* the InterLock socket adapter
    socket,         \* let socket: the number of an InterlockSocket, 0 for null
    sockets,        \* the InterlockSockets created: "starting", "started",
                    \* "failed", "stopped"
    heartbeatTimer, \* let heartbeatTimer: the number of a timer, 0 for null
    timers,         \* the interval timers that are set and not cleared
    starting,       \* the sockets whose start() a startInterlock call awaits
    stopping,       \* the sockets whose stop() a stopInterlock call awaits
    answering,      \* the signals whose handleSignal is awaited
    sent,           \* how many signals were given to a socket to send
    lastSent,       \* the last of them: [kind, type, via, request]
    stopped         \* a stopInterlock call has completed and startInterlock
                    \* was not called since

envVars == <<cwd, symlinks>>
pathVars == <<filePath, outcome, refed, pathAllowed, pc>>
attrVars == <<attrs, safeAttrs, apc>>
xattrVars == <<request, store, xpc, validatedPath, existingAttrs, attrList, idx,
               setNames, deletedNames, failedItems, attributes, response,
               listTool>>
spotVars == <<search, spc, foundPaths, limitedPaths, truncated, results,
              sresponse>>
logVars == <<execLog, auditLog, validatedSet>>
fnVars == <<fnArg, fnResult, fpc>>
raceVars == <<calls>>
httpVars == <<rateLimitMap, clock, httpRequest, httpReply, opened, passed, others>>
lockVars == <<socket, sockets, heartbeatTimer, timers, starting, stopping,
              answering, sent, lastSent, stopped>>
serverVars == <<raceVars, httpVars, lockVars>>
vars == <<envVars, pathVars, attrVars, xattrVars, spotVars, logVars, fnVars,
          serverVars>>

-----------------------------------------------------------------------------
(* Code points *)

\* The code points the model names: ch.slash is "/", and so on.
ch == [nul |-> 0, lf |-> 10, space |-> 32, percent |-> 37, minus |-> 45,
       dot |-> 46, slash |-> 47, colon |-> 58, underscore |-> 95,
       combAcute |-> 769, eAcute |-> 233, e |-> 101,
       kelvin |-> 8490, K |-> 75, replacement |-> 65533]

IsDigit(c) == c >= 48 /\ c <= 57
IsUpper(c) == c >= 65 /\ c <= 90
IsLower(c) == c >= 97 /\ c <= 122
IsAlpha(c) == IsUpper(c) \/ IsLower(c)
\* \w in a JS regular expression: [A-Za-z0-9_]
IsWordChar(c) == IsAlpha(c) \/ IsDigit(c) \/ c = ch.underscore
IsHexDigit(c) == IsDigit(c) \/ (c >= 65 /\ c <= 70) \/ (c >= 97 /\ c <= 102)
HexVal(c) == IF IsDigit(c) THEN c - 48
             ELSE IF c >= 97 THEN c - 87
             ELSE c - 55

-----------------------------------------------------------------------------
(* String helpers, after the methods of String.prototype *)

\* s.startsWith(p)
StartsWith(s, p) == Len(p) <= Len(s) /\ SubSeq(s, 1, Len(p)) = p

\* s.endsWith(p)
EndsWith(s, p) == Len(p) <= Len(s) /\ SubSeq(s, Len(s) - Len(p) + 1, Len(s)) = p

\* s.includes(p)
Includes(s, p) == \E i \in 1..(Len(s) - Len(p) + 1) : SubSeq(s, i, i + Len(p) - 1) = p

\* The sequences of a sequence of strings, joined end to end.
RECURSIVE Flatten(_)
Flatten(ss) == IF ss = <<>> THEN <<>> ELSE Head(ss) \o Flatten(Tail(ss))

\* The positions of s that hold the character c, in increasing order.
PositionsOf(s, c) == SelectSeq([i \in 1..Len(s) |-> i], LAMBDA i : s[i] = c)

\* s.split(sep) for a one-character separator: the pieces between separators.
CutAt(s, cuts) == [k \in 1..(Len(cuts) - 1) |-> SubSeq(s, cuts[k] + 1, cuts[k + 1] - 1)]

Split(s, sep) == CutAt(s, <<0>> \o PositionsOf(s, sep) \o <<Len(s) + 1>>)

\* segments.join(sep)
RECURSIVE Join(_, _)
Join(segs, sep) ==
    IF segs = <<>> THEN <<>>
    ELSE IF Len(segs) = 1 THEN Head(segs)
    ELSE Head(segs) \o <<sep>> \o Join(Tail(segs), sep)

-----------------------------------------------------------------------------
(* Path Validator *)

\* '/Users/macbook/Documents/BoxOfPrompts-Central'
RootCentral ==
    <<47, 85, 115, 101, 114, 115, 47, 109, 97, 99, 98, 111, 111, 107, 47, 68,
      111, 99, 117, 109, 101, 110, 116, 115, 47, 66, 111, 120, 79, 102, 80,
      114, 111, 109, 112, 116, 115, 45, 67, 101, 110, 116, 114, 97, 108>>

\* '/Users/macbook/Documents/Dropository'
RootDropository ==
    <<47, 85, 115, 101, 114, 115, 47, 109, 97, 99, 98, 111, 111, 107, 47, 68,
      111, 99, 117, 109, 101, 110, 116, 115, 47, 68, 114, 111, 112, 111, 115,
      105, 116, 111, 114, 121>>

\* '/Users/macbook/Documents/BoxOfPrompts-Central/Dropository'
RootNested == RootCentral \o SubSeq(RootDropository, 25, 36)

ALLOWED_ROOTS == <<RootCentral, RootDropository, RootNested>>

\* JS values that reach validatePath: a string carries its code points.
Str(s) == [type |-> "string", str |-> s]
JsNull == [type |-> "null", str |-> <<>>]
JsUndefined == [type |-> "undefined", str |-> <<>>]
JsNumber == [type |-> "number", str |-> <<>>]
JsArray == [type |-> "array", str |-> <<>>]
JsObject == [type |-> "object", str |-> <<>>]

\* What a call of validatePath does: it returns a path or throws an error.
Returned(p) == [kind |-> "ok", path |-> p, error |-> "none"]
Thrown(e) == [kind |-> "err", path |-> <<>>, error |-> e]
NotCalled == [kind |-> "none", path |-> <<>>, error |-> "none"]

\* filePath.replace(/\0/g, '')
StripNulls(s) == SelectSeq(s, LAMBDA c : c # ch.nul)

\* sanitized.normalize('NFC'), on the code points the inputs are drawn from:
\* the Kelvin sign U+212A has the singleton decomposition "K", and "e"
\* followed by the combining acute accent U+0301 composes to U+00E9.
NormalizeNFC(s) ==
    LET composed == [i \in 1..Len(s) |->
            IF s[i] = ch.e /\ i < Len(s) /\ s[i + 1] = ch.combAcute THEN ch.eAcute
            ELSE IF s[i] = ch.combAcute /\ i > 1 /\ s[i - 1] = ch.e THEN -1
            ELSE IF s[i] = ch.kelvin THEN ch.K
            ELSE s[i]]
    IN  SelectSeq(composed, LAMBDA c : c # -1)

\* The byte of the escape %XX at position i of s, or -1 when there is none.
EscapeAt(s, i) ==
    IF i + 2 <= Len(s) /\ s[i] = ch.percent /\ IsHexDigit(s[i + 1]) /\ IsHexDigit(s[i + 2])
    THEN 16 * HexVal(s[i + 1]) + HexVal(s[i + 2])
    ELSE -1

IsContinuation(b) == b >= 128 /\ b <= 191

\* The number of bytes of the UTF-8 sequence a lead byte opens (0: not a lead byte).
Utf8Length(b) ==
    IF b < 128 THEN 1
    ELSE IF b >= 194 /\ b <= 223 THEN 2
    ELSE IF b >= 224 /\ b <= 239 THEN 3
    ELSE IF b >= 240 /\ b <= 244 THEN 4
    ELSE 0

\* The code point of the n escapes starting at i, or -1 when they are not the
\* UTF-8 encoding of a code point (decodeURIComponent then throws URIError).
Utf8CodePoint(s, i, n) ==
    LET b1 == EscapeAt(s, i)
        b2 == EscapeAt(s, i + 3)
        b3 == EscapeAt(s, i + 6)
        b4 == EscapeAt(s, i + 9)
    IN  IF n = 1 THEN b1
        ELSE IF n = 2 THEN
            IF IsContinuation(b2) THEN (b1 - 192) * 64 + (b2 - 128) ELSE -1
        ELSE IF n = 3 THEN
            IF IsContinuation(b2) /\ IsContinuation(b3)
            THEN LET cp == (b1 - 224) * 4096 + (b2 - 128) * 64 + (b3 - 128)
                 IN  IF cp >= 2048 /\ ~(cp >= 55296 /\ cp <= 57343) THEN cp ELSE -1
            ELSE -1
        ELSE IF n = 4 THEN
            IF IsContinuation(b2) /\ IsContinuation(b3) /\ IsContinuation(b4)
            THEN LET cp == (b1 - 240) * 262144 + (b2 - 128) * 4096
                           + (b3 - 128) * 64 + (b4 - 128)
                 IN  IF cp >= 65536 /\ cp <= 1114111 THEN cp ELSE -1
            ELSE -1
        ELSE -1

\* The least element of a non-empty set of numbers.
Min(S) == CHOOSE k \in S : \A m \in S : k <= m

\* The code point of the escapes that start at position j of s, or -1.
CodePointAt(s, j, b) ==
    IF b < 0 \/ Utf8Length(b) = 0 THEN -1 ELSE Utf8CodePoint(s, j, Utf8Length(b))

\* decodeURIComponent(s) from position i on: [ok, str]; ok is FALSE when it
\* throws. The characters up to the next "%" (at j) are copied, the escapes
\* that start there are decoded to the code point cp.
RECURSIVE DecodeFrom(_, _, _)
DecodeEscape(s, i, acc, j, cp) ==
    IF cp < 0 THEN [ok |-> FALSE, str |-> <<>>]
    ELSE DecodeFrom(s, j + 3 * Utf8Length(EscapeAt(s, j)),
                    acc \o SubSeq(s, i, j - 1) \o <<cp>>)

DecodeNext(s, i, acc, j) == DecodeEscape(s, i, acc, j, CodePointAt(s, j, EscapeAt(s, j)))

DecodeFrom(s, i, acc) ==
    IF \A j \in i..Len(s) : s[j] # ch.percent
    THEN [ok |-> TRUE, str |-> acc \o SubSeq(s, i, Len(s))]
    ELSE DecodeNext(s, i, acc, Min({j \in i..Len(s) : s[j] = ch.percent}))

decodeURIComponent(s) == DecodeFrom(s, 1, <<>>)

\* The loop of validatePath: decode until nothing changes; a throw ends the
\* loop and leaves `decoded` as the last round left it.
RECURSIVE DecodeLoop(_)
DecodeRound(decoded, r) ==
    IF ~r.ok THEN decoded
    ELSE IF r.str = decoded THEN decoded
    ELSE DecodeLoop(r.str)

DecodeLoop(decoded) == DecodeRound(decoded, decodeURIComponent(decoded))

\* The number of times the body of that loop runs, one call of
\* decodeURIComponent each: the loop is not entered when `decoded` starts
\* equal to prev, the empty string.
RECURSIVE DecodeRounds(_)
CountRound(decoded, r) ==
    IF ~r.ok \/ r.str = decoded THEN 1 ELSE 1 + DecodeRounds(r.str)

DecodeRounds(decoded) ==
    IF decoded = <<>> THEN 0 ELSE CountRound(decoded, decodeURIComponent(decoded))

\* normalizeString of Node's path module on the segments of a path, with
\* allowAboveRoot = false: "" and "." are dropped, ".." removes the segment
\* before it, and is dropped at the root.
RECURSIVE NormalizeSegments(_, _)
NormalizeSegments(segs, acc) ==
    IF segs = <<>> THEN acc
    ELSE LET seg == Head(segs)
         IN  IF seg = <<>> \/ seg = <<ch.dot>> THEN NormalizeSegments(Tail(segs), acc)
             ELSE IF seg = <<ch.dot, ch.dot>>
                  THEN NormalizeSegments(Tail(segs),
                           IF acc = <<>> THEN acc ELSE SubSeq(acc, 1, Len(acc) - 1))
             ELSE NormalizeSegments(Tail(segs), Append(acc, seg))

IsAbsolute(p) == Len(p) > 0 /\ p[1] = ch.slash

\* path.resolve(p) with one argument: a relative or empty p is resolved
\* against the working directory dir.
PathResolve(p, dir) ==
    LET full == IF IsAbsolute(p) THEN p
                ELSE IF p = <<>> THEN dir
                ELSE dir \o <<ch.slash>> \o p
    IN  <<ch.slash>> \o Join(NormalizeSegments(Split(full, ch.slash), <<>>), ch.slash)

\* path.normalize(p) of an absolute path p: a trailing separator is kept.
NormalizedBody(p, body) ==
    IF body = <<>> THEN <<ch.slash>>
    ELSE <<ch.slash>> \o body
            \o (IF Len(p) > 0 /\ p[Len(p)] = ch.slash THEN <<ch.slash>> ELSE <<>>)

PathNormalize(p) ==
    NormalizedBody(p, Join(NormalizeSegments(Split(p, ch.slash), <<>>), ch.slash))

\* The target of the symbolic link at path p in the link set links.
LinkTarget(links, p) == (CHOOSE l \in links : l.at = p).to
IsLink(links, p) == \E l \in links : l.at = p

\* The file the kernel reaches for the absolute path made of the segments
\* segs below the already resolved directory at: every component that is a
\* symbolic link is replaced by its target (when followLast is FALSE the
\* last component is not followed, as lstat does not follow it).
RECURSIVE Walk(_, _, _, _)
Step(links, at, segs, followLast, next) ==
    IF IsLink(links, next) /\ (Len(segs) > 1 \/ followLast)
    THEN Walk(links, <<ch.slash>>,
              SelectSeq(Split(LinkTarget(links, next), ch.slash),
                        LAMBDA x : x # <<>>) \o Tail(segs),
              followLast)
    ELSE Walk(links, next, Tail(segs), followLast)

Walk(links, at, segs, followLast) ==
    IF segs = <<>> THEN at
    ELSE Step(links, at, segs, followLast,
              IF Head(segs) = <<ch.dot, ch.dot>>
              THEN PathResolve(at \o <<ch.slash, ch.dot, ch.dot>>, <<ch.slash>>)
              ELSE IF at = <<ch.slash>> THEN at \o Head(segs)
              ELSE at \o <<ch.slash>> \o Head(segs))

Components(p) == SelectSeq(Split(p, ch.slash), LAMBDA x : x # <<>> /\ x # <<ch.dot>>)

\* realpath(p): where an open() of p by an external tool ends up.
RealPath(links, p) == Walk(links, <<ch.slash>>, Components(p), TRUE)

\* statSync in the place of lstatSync: the last component is followed too.
lstatSyncFollowing(links, p) ==
    IF ch.nul \in {p[i] : i \in 1..Len(p)} THEN "other"
    ELSE IF IsLink(links, RealPath(links, p)) THEN "symlink"
    ELSE "other"

\* lstatSync(p): "symlink" when p names a symbolic link (the links in its
\* directory components are followed, the last component is not); "other"
\* stands for a file that is no link, for ENOENT and for every other error
\* (a path with a null character is ERR_INVALID_ARG_VALUE): validatePath
\* swallows all of them alike.
lstatSync(links, p) ==
    IF ch.nul \in {p[i] : i \in 1..Len(p)} THEN "other"
    ELSE IF IsLink(links, Walk(links, <<ch.slash>>, Components(p), FALSE))
         THEN "symlink"
    ELSE "other"

\* UnderRoot with the separator forgotten: normalized.startsWith(normalizedRoot).
UnderRootNoSeparator(normalized, root) ==
    StartsWith(normalized, PathNormalize(root))

\* normalized === normalizedRoot || normalized.startsWith(normalizedRoot + path.sep)
EqualsOrBelow(normalized, normalizedRoot) ==
    normalized = normalizedRoot
    \/ StartsWith(normalized, normalizedRoot \o <<ch.slash>>)

UnderRoot(normalized, root) == EqualsOrBelow(normalized, PathNormalize(root))

\* ALLOWED_ROOTS.some(root => ...)
InSandbox(normalized) ==
    \E i \in 1..Len(ALLOWED_ROOTS) : UnderRoot(normalized, ALLOWED_ROOTS[i])

\* The path validatePath checks: null stripping, NFC, the decoding loop,
\* path.resolve and path.normalize, in this order.
NormalizedOf(s, dir) ==
    PathNormalize(PathResolve(DecodeLoop(NormalizeNFC(StripNulls(s))), dir))

\* The symlink check and the sandbox check of validatePath on the
\* normalized path.
CheckNormalized(normalized, links) ==
    IF lstatSync(links, normalized) = "symlink"
    THEN Thrown("SymlinkRejected")
    ELSE IF ~InSandbox(normalized)
    THEN Thrown("OutsideSandbox")
    ELSE Returned(normalized)

\* CheckNormalized with the sandbox check made on another path than the one
\* returned.
CheckOther(normalized, other, links) ==
    IF lstatSync(links, normalized) = "symlink"
    THEN Thrown("SymlinkRejected")
    ELSE IF ~InSandbox(other)
    THEN Thrown("OutsideSandbox")
    ELSE Returned(normalized)

\* validatePath with the sandbox check made on the path as resolved before
\* the percent-decoding loop has run.
validatePathCheckUndecoded(v, links, dir) ==
    IF v.type # "string" \/ v.str = <<>>
    THEN Thrown("InvalidInput")
    ELSE CheckOther(NormalizedOf(v.str, dir),
                    PathNormalize(PathResolve(NormalizeNFC(StripNulls(v.str)), dir)),
                    links)

\* validatePath without the test of its argument: the argument is taken
\* for the string it would be turned into.
validatePathUnguarded(v, links, dir) ==
    CheckNormalized(NormalizedOf(v.str, dir), links)

validatePath(v, links, dir) ==
    IF v.type # "string" \/ v.str = <<>>
    THEN Thrown("InvalidInput")
    ELSE CheckNormalized(NormalizedOf(v.str, dir), links)

\* isPathAllowed deciding by the sandbox check alone.
isPathAllowedLexical(v, links, dir) ==
    /\ v.type = "string"
    /\ v.str # <<>>
    /\ InSandbox(NormalizedOf(v.str, dir))

\* isPathAllowed(filePath)
isPathAllowed(v, links, dir) == validatePath(v, links, dir).kind = "ok"

-----------------------------------------------------------------------------
(* Error sanitizer *)


\* The texts of path-validator.ts: the messages of the errors validatePath
\* throws, and the texts sanitizeErrorMessage returns or puts in.
msg ==
      \* 'Invalid path: must be a non-empty string'
    [ invalidPath |-> <<73, 110, 118, 97, 108, 105, 100, 32, 112, 97, 116, 104,
          58, 32, 109, 117, 115, 116, 32, 98, 101, 32, 97, 32, 110, 111, 110,
          45, 101, 109, 112, 116, 121, 32, 115, 116, 114, 105, 110, 103>>,
      \* 'Symlinks are not allowed: potential sandbox escape'
      symlink |-> <<83, 121, 109, 108, 105, 110, 107, 115, 32, 97, 114, 101, 32,
          110, 111, 116, 32, 97, 108, 108, 111, 119, 101, 100, 58, 32, 112, 111,
          116, 101, 110, 116, 105, 97, 108, 32, 115, 97, 110, 100, 98, 111, 120,
          32, 101, 115, 99, 97, 112, 101>>,
      \* 'Path outside allowed directories'
      outside |-> <<80, 97, 116, 104, 32, 111, 117, 116, 115, 105, 100, 101, 32,
          97, 108, 108, 111, 119, 101, 100, 32, 100, 105, 114, 101, 99, 116,
          111, 114, 105, 101, 115>>,
      \* 'Unknown error'
      unknownError |-> <<85, 110, 107, 110, 111, 119, 110, 32, 101, 114, 114,
          111, 114>>,
      \* '[path]'
      placeholder |-> <<91, 112, 97, 116, 104, 93>> ]

\* [\w\-._] : a character of a path segment in pathPattern
IsPathChar(c) == IsWordChar(c) \/ c = ch.minus \/ c = ch.dot

\* \s in a JS regular expression
IsSpace(c) ==
    \/ c \in {9, 10, 11, 12, 13, 32, 160, 5760, 8232, 8233, 8239, 8287, 12288, 65279}
    \/ (c >= 8192 /\ c <= 8202)

\* The last position of the longest run of characters satisfying In that
\* starts at position i (i - 1 when s[i] does not satisfy it).
RunEnd(s, i, In(_)) ==
    IF \A k \in i..Len(s) : In(s[k]) THEN Len(s)
    ELSE Min({k \in i..Len(s) : ~In(s[k])}) - 1

IsPathOrSlash(c) == IsPathChar(c) \/ c = ch.slash

\* (?:\/[\w\-._]+)+ from the "/" at position i, run being the end of the run
\* of segment characters and slashes: the match stops before the first "/"
\* that no segment character follows.
SegmentsEnd(s, i, run) ==
    IF \A k \in i..run : s[k] = ch.slash => (k < run /\ IsPathChar(s[k + 1]))
    THEN run
    ELSE Min({k \in i..run : s[k] = ch.slash /\ (k = run \/ ~IsPathChar(s[k + 1]))}) - 1

\* The last position of the match of pathPattern,
\*   /(?:\/[\w\-._]+)+|\.\.?\/[\w\-._/]*/ ,
\* that starts at position i of s, or 0 when none starts there.
PathMatchEnd(s, i) ==
    IF s[i] = ch.slash THEN
        IF i < Len(s) /\ IsPathChar(s[i + 1])
        THEN SegmentsEnd(s, i, RunEnd(s, i, IsPathOrSlash))
        ELSE 0
    ELSE IF s[i] = ch.dot THEN
        \* \.\.?\/[\w\-._/]*
        IF i + 2 <= Len(s) /\ s[i + 1] = ch.dot /\ s[i + 2] = ch.slash
        THEN RunEnd(s, i + 3, IsPathOrSlash)
        ELSE IF i + 1 <= Len(s) /\ s[i + 1] = ch.slash
        THEN RunEnd(s, i + 2, IsPathOrSlash)
        ELSE 0
    ELSE 0

\* message.replace(pathPattern, '[path]') from position i on; k is where the
\* next match starts.
RECURSIVE ReplacePaths(_, _, _)
ReplaceAt(s, i, acc, k) ==
    ReplacePaths(s, PathMatchEnd(s, k) + 1, acc \o SubSeq(s, i, k - 1) \o msg.placeholder)

ReplacePaths(s, i, acc) ==
    IF \A k \in i..Len(s) : PathMatchEnd(s, k) = 0
    THEN acc \o SubSeq(s, i, Len(s))
    ELSE ReplaceAt(s, i, acc, Min({k \in i..Len(s) : PathMatchEnd(s, k) > 0}))

\* The last position of the match of /:\s*\[path\]/ that starts at position
\* i of s, or 0 when none starts there; ws is where the white space ends.
PlaceholderEnd(s, ws) ==
    IF ws + Len(msg.placeholder) <= Len(s)
       /\ SubSeq(s, ws + 1, ws + Len(msg.placeholder)) = msg.placeholder
    THEN ws + Len(msg.placeholder)
    ELSE 0

LabelMatchEnd(s, i) ==
    IF s[i] # ch.colon THEN 0 ELSE PlaceholderEnd(s, RunEnd(s, i + 1, IsSpace))

\* sanitized.replace(/:\s*\[path\]/g, '') from position i on; k is where the
\* next match starts.
RECURSIVE StripLabels(_, _, _)
StripAt(s, i, acc, k) ==
    StripLabels(s, LabelMatchEnd(s, k) + 1, acc \o SubSeq(s, i, k - 1))

StripLabels(s, i, acc) ==
    IF \A k \in i..Len(s) : LabelMatchEnd(s, k) = 0
    THEN acc \o SubSeq(s, i, Len(s))
    ELSE StripAt(s, i, acc, Min({k \in i..Len(s) : LabelMatchEnd(s, k) > 0}))

\* sanitizeErrorMessage(message), message a JS value
sanitizeErrorMessage(v) ==
    IF v.type # "string" \/ v.str = <<>> THEN msg.unknownError
    ELSE StripLabels(ReplacePaths(v.str, 1, <<>>), 1, <<>>)

-----------------------------------------------------------------------------
(* The inputs validatePath is applied to *)

MaxPieces == 2

\* '/etc'
Etc == <<47, 101, 116, 99>>
\* '/private/etc'
PrivateEtc == <<47, 112, 114, 105, 118, 97, 116, 101, 47, 101, 116, 99>>
\* '/link'
LinkName == <<47, 108, 105, 110, 107>>

\* What an input starts with: nothing, "..", a sandbox root, or /etc.
Bases == {<<>>, <<46, 46>>, RootDropository, RootNested, Etc}

\* What follows: "/..", "/%2e%2e", "/%252e%252e", "/x", "x", a null
\* character, "%00", "/e" + U+0301, "/e%CC%81", "/%zz", "/%41", "/link".
Pieces ==
    { <<47, 46, 46>>,
      <<47, 37, 50, 101, 37, 50, 101>>,
      <<47, 37, 50, 53, 50, 101, 37, 50, 53, 50, 101>>,
      <<47, 120>>,
      <<120>>,
      <<0>>,
      <<37, 48, 48>>,
      <<47, 101, 769>>,
      <<47, 101, 37, 67, 67, 37, 56, 49>>,
      <<47, 37, 122, 122>>,
      <<47, 37, 52, 49>>,
      LinkName }

PieceSeqs == UNION {[1..n -> Pieces] : n \in 0..MaxPieces}

PathStrings == {b \o Flatten(ps) : b \in Bases, ps \in PieceSeqs}

\* '/.' percent-encoded eleven times over: '/%' + ten times '25' + '2e'
DeepEncoded ==
    <<47, 37, 50, 53, 50, 53, 50, 53, 50, 53, 50, 53, 50, 53, 50, 53, 50, 53,
      50, 53, 50, 53, 50, 101>>

PathInputs == {Str(s) : s \in PathStrings \cup {DeepEncoded}}
                \cup {JsNull, JsUndefined, JsNumber, JsArray, JsObject}

\* The links a filesystem may hold: a link inside the sandbox that points
\* out of it, and (as on macOS) /etc as a link to /private/etc.
CandidateLinks == {[at |-> RootDropository \o LinkName, to |-> Etc],
                   [at |-> Etc, to |-> PrivateEtc]}

WorkingDirs == {<<ch.slash>>, RootDropository}

PathIdle ==
    /\ filePath = JsUndefined
    /\ outcome = NotCalled
    /\ refed = NotCalled
    /\ pathAllowed = FALSE
    /\ pc = "idle"

PathInit ==
    /\ cwd \in WorkingDirs
    /\ symlinks \in SUBSET CandidateLinks
    /\ filePath \in PathInputs
    /\ outcome = NotCalled
    /\ refed = NotCalled
    /\ pathAllowed = FALSE
    /\ pc = "input"

\* validatePath(filePath)
Validate ==
    /\ pc = "input"
    /\ outcome' = validatePath(filePath, symlinks, cwd)
    /\ pc' = "validated"
    /\ UNCHANGED <<serverVars, fnVars, envVars, spotVars, filePath, refed, pathAllowed,
                   attrVars, xattrVars, logVars>>

\* A validated path given to validatePath again, as getXattrs and setXattrs
\* do when they call listXattrs(validatedPath).
Revalidate ==
    /\ pc = "validated"
    /\ outcome.kind = "ok"
    /\ refed' = validatePath(Str(outcome.path), symlinks, cwd)
    /\ pc' = "revalidated"
    /\ UNCHANGED <<serverVars, fnVars, envVars, spotVars, filePath, outcome, pathAllowed, attrVars,
                   xattrVars, logVars>>

\* isPathAllowed(filePath), in the filesystem state validatePath saw
Allow ==
    /\ pc = "validated"
    /\ pathAllowed' = isPathAllowed(filePath, symlinks, cwd)
    /\ pc' = "allowed"
    /\ UNCHANGED <<serverVars, fnVars, envVars, spotVars, filePath, outcome, refed, attrVars,
                   xattrVars, logVars>>

PathNext == Validate \/ Revalidate

\* validatePath, then isPathAllowed on the same argument
AllowedNext == Validate \/ Allow

-----------------------------------------------------------------------------
(* Attribute name sanitizer *)

\* The pattern with the closing "$" forgotten: a valid prefix is enough.
MatchesAttributePrefix(s) ==
    Len(s) >= 1 /\ (IsAlpha(s[1]) \/ s[1] = ch.underscore)

\* VALID_ATTRIBUTE_PATTERN.test(s), the pattern being /^[a-zA-Z_][a-zA-Z0-9_]*$/ :
\* the first character, then the longest run of word characters, then the
\* end of the string.

MatchesAttributePattern(s) ==
    /\ Len(s) >= 1
    /\ IsAlpha(s[1]) \/ s[1] = ch.underscore
    /\ RunEnd(s, 2, IsWordChar) = Len(s)

\* The filter callback of sanitizeAttributes: !attr and typeof attr first,
\* then the pattern.
KeepsAttribute(v) ==
    IF v.type # "string" \/ v.str = <<>> THEN FALSE
    ELSE MatchesAttributePattern(v.str)

\* sanitizeAttributes(list)
sanitizeAttributes(list) == SelectSeq(list, KeepsAttribute)

MaxAttrs == 2

\* The values a caller may put in the list: "a", "_a1", "kMD", "1a", "a;",
\* "a/b", "a.b", "a b", "a" + null character, "a" + line feed, "", null
\* and a number.
AttributeCandidates ==
    { Str(<<97>>), Str(<<95, 97, 49>>), Str(<<107, 77, 68>>), Str(<<49, 97>>),
      Str(<<97, 59>>), Str(<<97, 47, 98>>), Str(<<97, 46, 98>>),
      Str(<<97, 32, 98>>), Str(<<97, 0>>), Str(<<97, 10>>), Str(<<>>),
      JsNull, JsNumber }

AttributeLists == UNION {[1..n -> AttributeCandidates] : n \in 0..MaxAttrs}

AttrIdle ==
    /\ attrs = <<>>
    /\ safeAttrs = <<>>
    /\ apc = "idle"

AttrInit ==
    /\ attrs \in AttributeLists
    /\ safeAttrs = <<>>
    /\ apc = "input"

\* sanitizeAttributes(attrs)
Sanitize ==
    /\ apc = "input"
    /\ safeAttrs' = sanitizeAttributes(attrs)
    /\ apc' = "done"
    /\ UNCHANGED <<serverVars, fnVars, envVars, spotVars, pathVars, attrs, xattrVars, logVars>>

AttrNext == Sanitize

-----------------------------------------------------------------------------
(* Extended attributes service *)

\* The texts of xattr-service.ts, and 'Command failed: ' of execFile's error.
xtext ==
      \* 'Command failed: '
    [ commandFailed |-> <<67, 111, 109, 109, 97, 110, 100, 32, 102, 97, 105,
          108, 101, 100, 58, 32>>,
      \* 'xattr'
      xattr |-> <<120, 97, 116, 116, 114>>,
      \* '-p'
      p |-> <<45, 112>>,
      \* '-d'
      d |-> <<45, 100>>,
      \* '-w'
      w |-> <<45, 119>>,
      \* 'No such xattr'
      noSuchXattr |-> <<78, 111, 32, 115, 117, 99, 104, 32, 120, 97, 116, 116,
          114>>,
      \* 'Failed to list xattrs: '
      failedToList |-> <<70, 97, 105, 108, 101, 100, 32, 116, 111, 32, 108, 105,
          115, 116, 32, 120, 97, 116, 116, 114, 115, 58, 32>>,
      \* 'Attribute already exists'
      alreadyExists |-> <<65, 116, 116, 114, 105, 98, 117, 116, 101, 32, 97,
          108, 114, 101, 97, 100, 121, 32, 101, 120, 105, 115, 116, 115>>,
      \* '[Errno 13] Permission denied: '
      permissionDenied |-> <<91, 69, 114, 114, 110, 111, 32, 49, 51, 93, 32, 80,
          101, 114, 109, 105, 115, 115, 105, 111, 110, 32, 100, 101, 110, 105,
          101, 100, 58, 32>> ]

\* export const CommonAttributes, the two names of it the model uses
CommonAttributes ==
      \* 'com.apple.quarantine'
    [ QUARANTINE |-> <<99, 111, 109, 46, 97, 112, 112, 108, 101, 46, 113, 117,
          97, 114, 97, 110, 116, 105, 110, 101>>,
      \* 'com.imminence.glec'
      GLEC |-> <<99, 111, 109, 46, 105, 109, 109, 105, 110, 101, 110, 99, 101,
          46, 103, 108, 101, 99>> ]

\* 'tag', a name that is a plain identifier
AttrTag == <<116, 97, 103>>
\* 'v 1', a string value
ValueText == <<118, 32, 49>>
\* '{}', JSON.stringify of an empty object
ValueJson == <<123, 125>>

\* The message of the error validatePath throws.
ErrorMessage(e) ==
    CASE e = "InvalidInput" -> msg.invalidPath
      [] e = "SymlinkRejected" -> msg.symlink
      [] e = "OutsideSandbox" -> msg.outside

\* s.trim()
Max(S) == CHOOSE k \in S : \A m \in S : k >= m

Trim(s) ==
    IF \A i \in 1..Len(s) : IsSpace(s[i]) THEN <<>>
    ELSE SubSeq(s, Min({i \in 1..Len(s) : ~IsSpace(s[i])}),
                   Max({i \in 1..Len(s) : ~IsSpace(s[i])}))

\* stdout.trim().split('\n').filter(Boolean)
OutputLines(stdout) == SelectSeq(Split(Trim(stdout), ch.lf), LAMBDA l : l # <<>>)

\* JSON.parse(text) succeeds: text is one JSON value with white space around
\* it. Each *End operator gives the position after what it reads from
\* position i of s, or 0 when that is not there.
IsJsonSpace(c) == c \in {9, 10, 13, 32}

SkipSpace(s, i) == RunEnd(s, i, IsJsonSpace) + 1

\* digits from position i, at least one
DigitsEnd(s, i) == IF i <= Len(s) /\ IsDigit(s[i]) THEN RunEnd(s, i, IsDigit) + 1 ELSE 0

\* the exponent of a number, from position i
JsonExponentEnd(s, i) ==
    IF i <= Len(s) /\ s[i] \in {69, 101}
    THEN DigitsEnd(s, IF i < Len(s) /\ s[i + 1] \in {43, ch.minus} THEN i + 2 ELSE i + 1)
    ELSE i

\* the fraction and the exponent of a number, from position i
JsonFractionEnd(s, i) ==
    IF i <= Len(s) /\ s[i] = ch.dot
    THEN IF DigitsEnd(s, i + 1) = 0 THEN 0 ELSE JsonExponentEnd(s, DigitsEnd(s, i + 1))
    ELSE JsonExponentEnd(s, i)

\* a number without its sign: 0, or digits that do not start with 0
JsonUnsignedEnd(s, i) ==
    IF i > Len(s) \/ ~IsDigit(s[i]) THEN 0
    ELSE IF s[i] = 48 THEN JsonFractionEnd(s, i + 1)
    ELSE JsonFractionEnd(s, DigitsEnd(s, i))

JsonNumberEnd(s, i) == JsonUnsignedEnd(s, IF s[i] = ch.minus THEN i + 1 ELSE i)

\* the characters of a string after its opening quote, up to the closing one
RECURSIVE JsonCharsEnd(_, _)
JsonCharsEnd(s, j) ==
    IF j > Len(s) \/ s[j] < 32 THEN 0
    ELSE IF s[j] = 34 THEN j + 1
    ELSE IF s[j] # 92 THEN JsonCharsEnd(s, j + 1)
    ELSE IF j < Len(s) /\ s[j + 1] \in {34, 47, 92, 98, 102, 110, 114, 116}
    THEN JsonCharsEnd(s, j + 2)
    ELSE IF j + 5 <= Len(s) /\ s[j + 1] = 117
            /\ \A k \in (j + 2)..(j + 5) : IsHexDigit(s[k])
    THEN JsonCharsEnd(s, j + 6)
    ELSE 0

JsonStringEnd(s, i) == IF i <= Len(s) /\ s[i] = 34 THEN JsonCharsEnd(s, i + 1) ELSE 0

\* the literals true, false and null
JsonLiterals == {<<116, 114, 117, 101>>, <<102, 97, 108, 115, 101>>,
                 <<110, 117, 108, 108>>}

JsonLiteralEnd(s, i) ==
    IF \E l \in JsonLiterals : SubSeq(s, i, Min({Len(s), i + Len(l) - 1})) = l
    THEN i + Len(CHOOSE l \in JsonLiterals : SubSeq(s, i, Min({Len(s), i + Len(l) - 1})) = l)
    ELSE 0

RECURSIVE JsonValueEnd(_, _)
RECURSIVE JsonElementsEnd(_, _)
RECURSIVE JsonMembersEnd(_, _)

\* after an element of an array that ends before position e
JsonAfterElement(s, e, k) ==
    IF e = 0 \/ k > Len(s) THEN 0
    ELSE IF s[k] = 44 THEN JsonElementsEnd(s, SkipSpace(s, k + 1))
    ELSE IF s[k] = 93 THEN k + 1
    ELSE 0

JsonElementsEnd(s, i) ==
    JsonAfterElement(s, JsonValueEnd(s, i),
                     IF JsonValueEnd(s, i) = 0 THEN 0 ELSE SkipSpace(s, JsonValueEnd(s, i)))

\* after the value of a member of an object that ends before position e
JsonAfterMember(s, e, k) ==
    IF e = 0 \/ k > Len(s) THEN 0
    ELSE IF s[k] = 44 THEN JsonMembersEnd(s, SkipSpace(s, k + 1))
    ELSE IF s[k] = 125 THEN k + 1
    ELSE 0

\* the value of a member whose key ends before position e; k is where the
\* colon must be
JsonMemberValueEnd(s, e, k) ==
    IF e = 0 \/ k > Len(s) \/ s[k] # ch.colon THEN 0
    ELSE JsonAfterMember(s, JsonValueEnd(s, SkipSpace(s, k + 1)),
             IF JsonValueEnd(s, SkipSpace(s, k + 1)) = 0 THEN 0
             ELSE SkipSpace(s, JsonValueEnd(s, SkipSpace(s, k + 1))))

JsonMembersEnd(s, i) ==
    JsonMemberValueEnd(s, JsonStringEnd(s, i),
                       IF JsonStringEnd(s, i) = 0 THEN 0 ELSE SkipSpace(s, JsonStringEnd(s, i)))

\* what follows the opening bracket of an array or an object, k being the
\* first position after it that holds no white space
JsonArrayEnd(s, k) ==
    IF k > Len(s) THEN 0 ELSE IF s[k] = 93 THEN k + 1 ELSE JsonElementsEnd(s, k)

JsonObjectEnd(s, k) ==
    IF k > Len(s) THEN 0 ELSE IF s[k] = 125 THEN k + 1 ELSE JsonMembersEnd(s, k)

JsonValueEnd(s, i) ==
    IF i > Len(s) THEN 0
    ELSE IF s[i] = 123 THEN JsonObjectEnd(s, SkipSpace(s, i + 1))
    ELSE IF s[i] = 91 THEN JsonArrayEnd(s, SkipSpace(s, i + 1))
    ELSE IF s[i] = 34 THEN JsonStringEnd(s, i)
    ELSE IF s[i] = ch.minus \/ IsDigit(s[i]) THEN JsonNumberEnd(s, i)
    ELSE JsonLiteralEnd(s, i)

JsonEndsAt(s, e) == e > 0 /\ SkipSpace(s, e) > Len(s)

IsJson(text) == JsonEndsAt(text, JsonValueEnd(text, SkipSpace(text, 1)))

\* The value JSON.parse(text) gives, kept as its kind and the text it was
\* read from.
JsonKind(c) ==
    IF c = 123 THEN "object" ELSE IF c = 91 THEN "array"
    ELSE IF c = 34 THEN "string" ELSE IF c = ch.minus \/ IsDigit(c) THEN "number"
    ELSE IF c = 110 THEN "null" ELSE "boolean"

JsonParsed(text) == [type |-> JsonKind(text[SkipSpace(text, 1)]), str |-> Trim(text)]

\* Buffer.from(digits, 'hex'): one byte per pair of hex digits; a last digit
\* without a partner is dropped.
HexBytes(digits) ==
    [k \in 1..(Len(digits) \div 2) |->
        16 * HexVal(digits[2 * k - 1]) + HexVal(digits[2 * k])]

\* The second byte of a UTF-8 sequence that the lead byte b1 allows.
IsSecondByte(b1, b2) ==
    IF b1 = 224 THEN b2 >= 160 /\ b2 <= 191
    ELSE IF b1 = 237 THEN b2 >= 128 /\ b2 <= 159
    ELSE IF b1 = 240 THEN b2 >= 144 /\ b2 <= 191
    ELSE IF b1 = 244 THEN b2 >= 128 /\ b2 <= 143
    ELSE IsContinuation(b2)

\* The number of bytes from position i that are the start of a UTF-8
\* sequence of n bytes (n itself when the sequence is whole).
Utf8PrefixLength(bytes, i, n) ==
    IF n <= 1 \/ i + 1 > Len(bytes) \/ ~IsSecondByte(bytes[i], bytes[i + 1]) THEN 1
    ELSE IF n = 2 \/ i + 2 > Len(bytes) \/ ~IsContinuation(bytes[i + 2]) THEN 2
    ELSE IF n = 3 \/ i + 3 > Len(bytes) \/ ~IsContinuation(bytes[i + 3]) THEN 3
    ELSE 4

\* The code point of the whole sequence of n bytes at position i.
Utf8Value(bytes, i, n) ==
    IF n = 1 THEN bytes[i]
    ELSE IF n = 2 THEN (bytes[i] - 192) * 64 + (bytes[i + 1] - 128)
    ELSE IF n = 3 THEN (bytes[i] - 224) * 4096 + (bytes[i + 1] - 128) * 64
                       + (bytes[i + 2] - 128)
    ELSE (bytes[i] - 240) * 262144 + (bytes[i + 1] - 128) * 4096
         + (bytes[i + 2] - 128) * 64 + (bytes[i + 3] - 128)

\* buffer.toString('utf8') from position i on: every byte sequence that is
\* not the encoding of a code point becomes U+FFFD.
RECURSIVE Utf8Decode(_, _, _)
Utf8DecodeAt(bytes, i, acc, n, got) ==
    IF n > 0 /\ got = n
    THEN Utf8Decode(bytes, i + n, Append(acc, Utf8Value(bytes, i, n)))
    ELSE Utf8Decode(bytes, i + got, Append(acc, ch.replacement))

Utf8Decode(bytes, i, acc) ==
    IF i > Len(bytes) THEN acc
    ELSE Utf8DecodeAt(bytes, i, acc, Utf8Length(bytes[i]),
                      Utf8PrefixLength(bytes, i, Utf8Length(bytes[i])))

\* Buffer.byteLength(s, 'utf8')
ByteLength(s) ==
    Len(s) + Cardinality({i \in 1..Len(s) : s[i] >= 128})
           + Cardinality({i \in 1..Len(s) : s[i] >= 2048})
           + Cardinality({i \in 1..Len(s) : s[i] >= 65536})

\* A JS number that is a whole number of halves: n / 2.
Halves(n) == [whole |-> n \div 2, half |-> n % 2 = 1]
Whole(n) == [whole |-> n, half |-> FALSE]

\* /^[0-9A-Fa-f\s]+$/.test(rawValue)
LooksHex(rawValue) ==
    /\ rawValue # <<>>
    /\ \A i \in 1..Len(rawValue) : IsHexDigit(rawValue[i]) \/ IsSpace(rawValue[i])

XattrValue(value, size, encoding) == [value |-> value, size |-> size, encoding |-> encoding]

\* decodeXattrValue for hex-looking data: bytes is the value without its
\* white space, buffer its bytes and decoded their text.
DecodeHex(bytes, buffer, decoded) ==
    IF decoded # <<>> /\ ~Includes(decoded, <<ch.replacement>>)
    THEN IF IsJson(decoded)
         THEN XattrValue(JsonParsed(decoded), Whole(Len(buffer)), "utf8")
         ELSE XattrValue(Str(decoded), Whole(Len(buffer)), "utf8")
    ELSE XattrValue(Str(bytes), Halves(Len(bytes)), "hex")

\* decodeXattrValue for a plain string value
DecodePlain(rawValue) ==
    IF IsJson(rawValue)
    THEN XattrValue(JsonParsed(rawValue), Whole(ByteLength(rawValue)), "utf8")
    ELSE XattrValue(Str(rawValue), Whole(ByteLength(rawValue)), "utf8")

HexDigitsOf(rawValue) == SelectSeq(rawValue, LAMBDA c : ~IsSpace(c))

\* function decodeXattrValue(rawValue, decodePlist); decodePlist is not used
decodeXattrValue(rawValue, decodePlist) ==
    IF LooksHex(rawValue)
    THEN DecodeHex(HexDigitsOf(rawValue), HexBytes(HexDigitsOf(rawValue)),
                   Utf8Decode(HexBytes(HexDigitsOf(rawValue)), 1, <<>>))
    ELSE DecodePlain(rawValue)

\* An argument of an external command: a flag the code writes literally, or
\* a string the code was given (by its caller or by a tool's output).
Fixed(s) == [flag |-> TRUE, str |-> s]
Given(s) == [flag |-> FALSE, str |-> s]

\* exec(file, args): the command as execFile runs it.
Command(file, args) == [file |-> file, args |-> args]

\* The message of the error exec rejects with when the command fails:
\* 'Command failed: ' + [file, ...args].join(' ') + '\n' + stderr
ExecErrorMessage(cmd, stderr) ==
    xtext.commandFailed
        \o Join(<<cmd.file>> \o [i \in 1..Len(cmd.args) |-> cmd.args[i].str], ch.space)
        \o <<ch.lf>> \o stderr

\* What the xattr tool writes to stderr when it fails.
StderrNoSuchXattr(path, name) ==
    xtext.xattr \o <<ch.colon, ch.space>> \o path \o <<ch.colon, ch.space>>
        \o xtext.noSuchXattr \o <<ch.colon, ch.space>> \o name \o <<ch.lf>>
StderrDenied(path) ==
    xtext.xattr \o <<ch.colon, ch.space>> \o xtext.permissionDenied
        \o <<39>> \o path \o <<39, ch.lf>>

\* The order in which the tool lists the names of a file's attributes.
AttrOrder == <<CommonAttributes.QUARANTINE, CommonAttributes.GLEC, AttrTag>>

\* What `xattr path` writes to stdout: one name per line.
ListStdout(st) ==
    Flatten([i \in 1..Len(AttrOrder) |->
                IF AttrOrder[i] \in DOMAIN st THEN AttrOrder[i] \o <<ch.lf>> ELSE <<>>])

\* What a call gives its caller.
NoResponse == [kind |-> "none", message |-> <<>>, value |-> <<>>]
Threw(m) == [kind |-> "throw", message |-> m, value |-> <<>>]
Gave(v) == [kind |-> "return", message |-> <<>>, value |-> v]

\* db.logXattrOperation(operation, target, attribute, success)
Audit(operation, target, attribute, success) ==
    [operation |-> operation, target |-> target, attribute |-> attribute,
     success |-> success]

\* listXattrs after validatePath returned path: cmd is the command run,
\* message the message of exec's error when the tool fails, names the lines
\* of its output when it does not.
ListRun(path, cmd, message, names, tool) ==
    IF tool = "ok"
    THEN [response |-> Gave([path |-> path, attributes |-> names, count |-> Len(names)]),
          exec |-> <<cmd>>,
          audit |-> <<Audit("list", path, JsUndefined, TRUE)>>,
          validated |-> {path}]
    ELSE [response |-> IF Includes(message, xtext.noSuchXattr)
                       THEN Gave([path |-> path, attributes |-> <<>>, count |-> 0])
                       ELSE Threw(xtext.failedToList \o message),
          exec |-> <<cmd>>,
          audit |-> <<Audit("list", path, JsUndefined, FALSE)>>,
          validated |-> {path}]

ListCommand(path) == Command(xtext.xattr, <<Given(path)>>)

ListValidated(v, st, tool) ==
    IF v.kind = "err"
    THEN [response |-> Threw(ErrorMessage(v.error)), exec |-> <<>>,
          audit |-> <<>>, validated |-> {}]
    ELSE ListRun(v.path, ListCommand(v.path),
                 ExecErrorMessage(ListCommand(v.path),
                     IF tool = "nosuch" THEN StderrNoSuchXattr(v.path, <<>>)
                     ELSE StderrDenied(v.path)),
                 OutputLines(ListStdout(st)), tool)

\* listXattrs(fp) when the tool behaves as `tool` says ("ok", "nosuch",
\* "denied"): what it gives its caller, the commands it ran, the audit
\* records it wrote and the paths validatePath returned to it.
listXattrs(fp, links, dir, st, tool) ==
    ListValidated(validatePath(fp, links, dir), st, tool)

ListOutcomes == {"ok", "nosuch", "denied"}

\* export async function listXattrs(filePath)
ListCall ==
    /\ xpc = "ready"
    /\ request.op = "list"
    /\ \E tool \in ListOutcomes :
          \E r \in {listXattrs(request.filePath, symlinks, cwd, store, tool)} :
              /\ listTool' = (IF r.exec = <<>> THEN listTool ELSE tool)
              /\ response' = r.response
              /\ execLog' = execLog \o r.exec
              /\ auditLog' = auditLog \o r.audit
              /\ validatedSet' = validatedSet \cup r.validated
    /\ xpc' = "done"
    /\ UNCHANGED <<serverVars, fnVars, envVars, spotVars, pathVars, attrVars,
                   request, store, validatedPath,
                   existingAttrs, attrList, idx, setNames, deletedNames,
                   failedItems, attributes>>

\* The entry of getXattrs and setXattrs: const validatedPath = validatePath(filePath)
Begin(op, next) ==
    /\ xpc = "ready"
    /\ request.op = op
    /\ \E v \in {validatePath(request.filePath, symlinks, cwd)} :
           IF v.kind = "err"
           THEN /\ response' = Threw(ErrorMessage(v.error))
                /\ xpc' = "done"
                /\ UNCHANGED <<validatedPath, validatedSet, idx>>
           ELSE /\ validatedPath' = v.path
                /\ validatedSet' = validatedSet \cup {v.path}
                /\ xpc' = next
                /\ idx' = IF next = "set_loop" THEN 1 ELSE 0
                /\ UNCHANGED response
    /\ UNCHANGED <<serverVars, fnVars, envVars, spotVars, pathVars, attrVars,
                   request, listTool, store, existingAttrs,
                   attrList, setNames, deletedNames, failedItems, attributes,
                   execLog, auditLog>>

\* getXattrs, lines 284-289
GetBegin == Begin("get", "get_list")

\* getXattrs: const { attributes: attrList } = await listXattrs(validatedPath),
\* and the outer catch when it throws.
GetList ==
    /\ xpc = "get_list"
    /\ \E tool \in ListOutcomes :
          \E r \in {listXattrs(Str(validatedPath), symlinks, cwd, store, tool)} :
              /\ listTool' = (IF r.exec = <<>> THEN listTool ELSE tool)
              /\ execLog' = execLog \o r.exec
              /\ validatedSet' = validatedSet \cup r.validated
              /\ IF r.response.kind = "throw"
                 THEN /\ auditLog' = auditLog \o r.audit
                            \o <<Audit("get", validatedPath, request.attribute, FALSE)>>
                      /\ response' = r.response
                      /\ xpc' = "done"
                      /\ UNCHANGED <<attrList, idx>>
                 ELSE /\ auditLog' = auditLog \o r.audit
                      /\ attrList' = r.response.value.attributes
                      /\ idx' = 1
                      /\ xpc' = "get_loop"
                      /\ UNCHANGED response
    /\ UNCHANGED <<serverVars, fnVars, envVars, spotVars, pathVars, attrVars,
                   request, store, validatedPath,
                   existingAttrs, setNames, deletedNames, failedItems, attributes>>

\* getXattrs: one turn of `for (const attrName of attrList)`
GetAttr ==
    /\ xpc = "get_loop"
    /\ idx <= Len(attrList)
    /\ LET attrName == attrList[idx]
           cmd == Command(xtext.xattr, <<Fixed(xtext.p), Given(attrName), Given(validatedPath)>>)
       IN  IF request.attribute.type = "string" /\ request.attribute.str # <<>>
              /\ attrName # request.attribute.str
           THEN UNCHANGED <<attributes, execLog, auditLog>>
           ELSE /\ execLog' = Append(execLog, cmd)
                /\ \/ /\ attrName \in DOMAIN store
                      /\ attributes' = Append(attributes,
                             [name |-> attrName,
                              value |-> decodeXattrValue(
                                  Trim(store[attrName] \o <<ch.lf>>), TRUE)])
                      /\ auditLog' = Append(auditLog,
                             Audit("get", validatedPath, Str(attrName), TRUE))
                   \/ \* the tool fails: the attribute is skipped
                      /\ UNCHANGED <<attributes, auditLog>>
    /\ idx' = idx + 1
    /\ UNCHANGED <<serverVars, fnVars, envVars, spotVars, pathVars, attrVars,
                   request, listTool, store, xpc, validatedPath,
                   existingAttrs, attrList, setNames, deletedNames, failedItems,
                   response, validatedSet>>

\* getXattrs: return { path, attributes, count }
GetReturn ==
    /\ xpc = "get_loop"
    /\ idx > Len(attrList)
    /\ response' = Gave([path |-> validatedPath, attributes |-> attributes,
                         count |-> Len(attributes)])
    /\ xpc' = "done"
    /\ UNCHANGED <<serverVars, fnVars, envVars, spotVars, pathVars, attrVars,
                   request, listTool, store, validatedPath,
                   existingAttrs, attrList, idx, setNames, deletedNames,
                   failedItems, attributes, logVars>>

\* setXattrs, lines 328-339
SetBegin ==
    Begin("set", IF request.createOnly THEN "set_list" ELSE "set_loop")

\* setXattrs: if (createOnly) existingAttrs = (await listXattrs(validatedPath)).attributes
SetList ==
    /\ xpc = "set_list"
    /\ \E tool \in ListOutcomes :
          \E r \in {listXattrs(Str(validatedPath), symlinks, cwd, store, tool)} :
              /\ listTool' = (IF r.exec = <<>> THEN listTool ELSE tool)
              /\ execLog' = execLog \o r.exec
              /\ auditLog' = auditLog \o r.audit
              /\ validatedSet' = validatedSet \cup r.validated
              /\ IF r.response.kind = "throw"
                 THEN /\ response' = r.response
                      /\ xpc' = "done"
                      /\ UNCHANGED <<existingAttrs, idx>>
                 ELSE /\ existingAttrs' = r.response.value.attributes
                      /\ idx' = 1
                      /\ xpc' = "set_loop"
                      /\ UNCHANGED response
    /\ UNCHANGED <<serverVars, fnVars, envVars, spotVars, pathVars, attrVars,
                   request, store, validatedPath,
                   attrList, setNames, deletedNames, failedItems, attributes>>

\* The catch block with the error thrown on instead of recorded.
CatchAttrFailureRethrows(name, message) ==
    /\ response' = Threw(message)
    /\ xpc' = "done"
    /\ auditLog' = Append(auditLog, Audit("set", validatedPath, Str(name), FALSE))
    /\ UNCHANGED <<failedItems, idx, setNames, deletedNames, store>>

\* setXattrs: catch (err) { failed.push(...); db.logXattrOperation('set', ..., false) }
CatchAttrFailure(name, message) ==
    /\ failedItems' = Append(failedItems, [name |-> name, error |-> message])
    /\ auditLog' = Append(auditLog, Audit("set", validatedPath, Str(name), FALSE))
    /\ idx' = idx + 1
    /\ UNCHANGED <<xpc, response, setNames, deletedNames, store>>

\* typeof value === 'object' ? JSON.stringify(value) : String(value)
ValueString(value) == IF value.type = "object" THEN ValueJson ELSE value.str

\* setXattrs: one turn of `for (const [name, value] of Object.entries(attrs))`
SetAttr ==
    /\ xpc = "set_loop"
    /\ idx <= Len(request.attrs)
    /\ LET name == request.attrs[idx].name
           value == request.attrs[idx].value
           del == Command(xtext.xattr, <<Fixed(xtext.d), Given(name), Given(validatedPath)>>)
           write == Command(xtext.xattr, <<Fixed(xtext.w), Given(name),
                                        Given(ValueString(value)), Given(validatedPath)>>)
       IN  IF value.type = "null"
           THEN /\ execLog' = Append(execLog, del)
                /\ \/ /\ name \in DOMAIN store
                      /\ store' = [n \in DOMAIN store \ {name} |-> store[n]]
                      /\ deletedNames' = Append(deletedNames, name)
                      /\ auditLog' = Append(auditLog,
                             Audit("delete", validatedPath, Str(name), TRUE))
                      /\ idx' = idx + 1
                      /\ UNCHANGED <<xpc, response, setNames, failedItems>>
                   \/ /\ name \notin DOMAIN store
                      /\ CatchAttrFailure(name,
                             ExecErrorMessage(del, StderrNoSuchXattr(validatedPath, name)))
                   \/ CatchAttrFailure(name,
                          ExecErrorMessage(del, StderrDenied(validatedPath)))
           ELSE IF request.createOnly /\ \E i \in 1..Len(existingAttrs) : existingAttrs[i] = name
           THEN /\ failedItems' = Append(failedItems,
                       [name |-> name, error |-> xtext.alreadyExists])
                /\ idx' = idx + 1
                /\ UNCHANGED <<xpc, response, setNames, deletedNames, store,
                               execLog, auditLog>>
           ELSE /\ execLog' = Append(execLog, write)
                /\ \/ /\ store' = [n \in DOMAIN store \cup {name} |->
                                     IF n = name THEN ValueString(value) ELSE store[n]]
                      /\ setNames' = Append(setNames, name)
                      /\ auditLog' = Append(auditLog,
                             Audit("set", validatedPath, Str(name), TRUE))
                      /\ idx' = idx + 1
                      /\ UNCHANGED <<xpc, response, deletedNames, failedItems>>
                   \/ CatchAttrFailure(name,
                          ExecErrorMessage(write, StderrDenied(validatedPath)))
    /\ UNCHANGED <<serverVars, fnVars, envVars, spotVars, pathVars, attrVars,
                   request, listTool, validatedPath,
                   existingAttrs, attrList, attributes, validatedSet>>

\* setXattrs: return { path: validatedPath, set, deleted, failed }
SetReturn ==
    /\ xpc = "set_loop"
    /\ idx > Len(request.attrs)
    /\ response' = Gave([path |-> validatedPath, set |-> setNames,
                         deleted |-> deletedNames, failed |-> failedItems])
    /\ xpc' = "done"
    /\ UNCHANGED <<serverVars, fnVars, envVars, spotVars, pathVars, attrVars,
                   request, listTool, store, validatedPath,
                   existingAttrs, attrList, idx, setNames, deletedNames,
                   failedItems, attributes, logVars>>

XattrNext ==
    \/ ListCall
    \/ GetBegin \/ GetList \/ GetAttr \/ GetReturn
    \/ SetBegin \/ SetList \/ SetAttr \/ SetReturn

\* The paths the service is called with: a file in the sandbox, /etc, a
\* file in the sandbox named with escapes, "/e%CC%81", and a file in the
\* sandbox whose name is "No such xattr".
ServicePaths ==
    { Str(RootDropository \o <<47, 120>>),
      Str(Etc),
      Str(RootDropository \o <<47, 101, 37, 67, 67, 37, 56, 49>>),
      Str(RootDropository \o <<ch.slash>> \o xtext.noSuchXattr) }

\* The values setXattrs is given for a name: null (delete), a string, an object.
SetValues == {JsNull, Str(ValueText), JsObject}

AttrNameSet == {AttrOrder[i] : i \in 1..Len(AttrOrder)}

\* The entries of the attrs object, in insertion order; its keys are distinct.
SetEntryLists ==
    { es \in UNION {[1..n -> [name : AttrNameSet, value : SetValues]] : n \in 0..MaxAttrs} :
        \A i, j \in 1..Len(es) : i # j => es[i].name # es[j].name }

Requests ==
    {[op |-> "list", filePath |-> p, attribute |-> JsUndefined, attrs |-> <<>>,
      createOnly |-> FALSE] : p \in ServicePaths}
    \cup
    {[op |-> "get", filePath |-> p, attribute |-> a, attrs |-> <<>>,
      createOnly |-> FALSE] :
        p \in ServicePaths, a \in {JsUndefined, Str(CommonAttributes.QUARANTINE), Str(AttrTag)}}
    \cup
    {[op |-> "set", filePath |-> p, attribute |-> JsUndefined, attrs |-> es,
      createOnly |-> c] :
        p \in ServicePaths, es \in SetEntryLists, c \in BOOLEAN}

\* The attributes the file starts with.
Stores ==
    { <<>>,
      [n \in {CommonAttributes.QUARANTINE} |-> ValueText],
      [n \in {CommonAttributes.QUARANTINE, AttrTag} |-> ValueText] }

XattrIdle ==
    /\ request = [op |-> "none", filePath |-> JsUndefined, attribute |-> JsUndefined,
                  attrs |-> <<>>, createOnly |-> FALSE]
    /\ store = <<>>
    /\ xpc = "idle"
    /\ validatedPath = <<>>
    /\ existingAttrs = <<>>
    /\ attrList = <<>>
    /\ idx = 0
    /\ setNames = <<>>
    /\ deletedNames = <<>>
    /\ failedItems = <<>>
    /\ attributes = <<>>
    /\ response = NoResponse
    /\ listTool = "none"

LogIdle ==
    /\ execLog = <<>>
    /\ auditLog = <<>>
    /\ validatedSet = {}

FnIdle ==
    /\ fnArg = JsUndefined
    /\ fnResult = <<>>
    /\ fpc = "idle"

XattrInit ==
    /\ request \in Requests
    /\ store \in Stores
    /\ xpc = "ready"
    /\ validatedPath = <<>>
    /\ existingAttrs = <<>>
    /\ attrList = <<>>
    /\ idx = 0
    /\ setNames = <<>>
    /\ deletedNames = <<>>
    /\ failedItems = <<>>
    /\ attributes = <<>>
    /\ response = NoResponse
    /\ listTool = "none"

-----------------------------------------------------------------------------
(* Spotlight service *)

\* The texts of spotlight-service.ts
stext ==
      \* 'mdfind'
    [ mdfind |-> <<109, 100, 102, 105, 110, 100>>,
      \* 'mdls'
      mdls |-> <<109, 100, 108, 115>>,
      \* 'mdimport'
      mdimport |-> <<109, 100, 105, 109, 112, 111, 114, 116>>,
      \* '-onlyin'
      onlyin |-> <<45, 111, 110, 108, 121, 105, 110>>,
      \* '--name'
      name |-> <<45, 45, 110, 97, 109, 101>>,
      \* 'Spotlight search failed: '
      searchFailed |-> <<83, 112, 111, 116, 108, 105, 103, 104, 116, 32, 115,
          101, 97, 114, 99, 104, 32, 102, 97, 105, 108, 101, 100, 58, 32>>,
      \* 'Path validation failed: '
      validationFailed |-> <<80, 97, 116, 104, 32, 118, 97, 108, 105, 100, 97,
          116, 105, 111, 110, 32, 102, 97, 105, 108, 101, 100, 58, 32>>,
      \* 'Reindex queued successfully'
      reindexQueued |-> <<82, 101, 105, 110, 100, 101, 120, 32, 113, 117, 101,
          117, 101, 100, 32, 115, 117, 99, 99, 101, 115, 115, 102, 117, 108,
          108, 121>>,
      \* 'Reindex failed: '
      reindexFailed |-> <<82, 101, 105, 110, 100, 101, 120, 32, 102, 97, 105,
          108, 101, 100, 58, 32>>,
      \* '(null)'
      nullLiteral |-> <<40, 110, 117, 108, 108, 41>> ]

\* SpotlightQueries.ALL_MARKDOWN: 'kMDItemDisplayName == "*.md"'
QueryAllMarkdown == <<107, 77, 68, 73, 116, 101, 109, 68, 105, 115, 112, 108,
    97, 121, 78, 97, 109, 101, 32, 61, 61, 32, 34, 42, 46, 109, 100, 34>>
\* 'kMDItemDisplayName'
AttrDisplayName == <<107, 77, 68, 73, 116, 101, 109, 68, 105, 115, 112, 108,
    97, 121, 78, 97, 109, 101>>
\* what mdfind writes to stderr when it fails, naming the directory
StderrMdfind == <<109, 100, 102, 105, 110, 100, 58, 32, 70, 97, 105, 108, 101,
    100, 32, 116, 111, 32, 99, 114, 101, 97, 116, 101, 32, 113, 117, 101, 114,
    121, 32, 102, 111, 114, 32, 47, 85, 115, 101, 114, 115, 47, 109, 97, 99,
    98, 111, 111, 107, 47, 68, 111, 99, 117, 109, 101, 110, 116, 115, 47, 68,
    114, 111, 112, 111, 115, 105, 116, 111, 114, 121, 10>>
\* what mdimport writes to stderr when it fails, naming the file
StderrMdimport == <<109, 100, 105, 109, 112, 111, 114, 116, 58, 32, 117, 110,
    97, 98, 108, 101, 32, 116, 111, 32, 105, 110, 100, 101, 120, 32, 47, 85,
    115, 101, 114, 115, 47, 109, 97, 99, 98, 111, 111, 107, 47, 68, 111, 99,
    117, 109, 101, 110, 116, 115, 47, 68, 114, 111, 112, 111, 115, 105, 116,
    111, 114, 121, 47, 120, 10>>

\* basename(path): the last segment, trailing separators set aside.
Basename(path) ==
    IF \A i \in 1..Len(path) : path[i] = ch.slash THEN <<>>
    ELSE Split(SubSeq(path, 1, Max({i \in 1..Len(path) : path[i] # ch.slash})),
               ch.slash)[Len(Split(SubSeq(path, 1,
                   Max({i \in 1..Len(path) : path[i] # ch.slash})), ch.slash))]

\* The values parseSpotlightValue gives: null, a list of strings, a string
\* or a number (kept as the text it was read from).
ParsedNull == [type |-> "null", str |-> <<>>, items |-> <<>>]
ParsedList(items) == [type |-> "array", str |-> <<>>, items |-> items]
ParsedString(str) == [type |-> "string", str |-> str, items |-> <<>>]
ParsedNumber(str) == [type |-> "number", str |-> str, items |-> <<>>]

\* v.replace(/^"|"$/g, ''): a quote at the start and a quote at the end go.
StripQuotes(v) ==
    SelectSeq([i \in 1..Len(v) |-> IF v[i] = 34 /\ i \in {1, Len(v)} THEN -1 ELSE v[i]],
              LAMBDA c : c >= 0)

\* inner.split(',').map(v => v.trim().replace(/^"|"$/g, ''))
ListItems(inner) ==
    [i \in 1..Len(Split(inner, 44)) |-> StripQuotes(Trim(Split(inner, 44)[i]))]

\* !isNaN(Number(value)): the value, white space at its ends aside, is empty
\* (Number('') is 0) or a StrNumericLiteral: a decimal literal with an
\* optional sign, fraction and exponent, Infinity with an optional sign, or
\* an unsigned hexadecimal, octal or binary integer literal. The number is
\* kept as the text it was read from.
IsDigits(s) == s # <<>> /\ \A i \in 1..Len(s) : IsDigit(s[i])

\* DecimalDigits . DecimalDigits? | . DecimalDigits | DecimalDigits
IsMantissa(s) ==
    /\ \A i \in 1..Len(s) : IsDigit(s[i]) \/ s[i] = ch.dot
    /\ Len(PositionsOf(s, ch.dot)) <= 1
    /\ \E i \in 1..Len(s) : IsDigit(s[i])

\* what follows the e of an exponent: digits with an optional sign
IsExponent(s) ==
    IsDigits(IF s # <<>> /\ s[1] \in {43, ch.minus} THEN Tail(s) ELSE s)

\* 'Infinity'
InfinityLiteral == <<73, 110, 102, 105, 110, 105, 116, 121>>

\* StrUnsignedDecimalLiteral; es holds the positions of e and E
IsUnsignedDecimal(s, es) ==
    \/ s = InfinityLiteral
    \/ es = <<>> /\ IsMantissa(s)
    \/ /\ es # <<>>
       /\ IsMantissa(SubSeq(s, 1, es[1] - 1))
       /\ IsExponent(SubSeq(s, es[1] + 1, Len(s)))

ExponentMarks(s) ==
    SelectSeq([i \in 1..Len(s) |-> i], LAMBDA i : s[i] \in {69, 101})

Unsigned(s) == IF s # <<>> /\ s[1] \in {43, ch.minus} THEN Tail(s) ELSE s

IsDecimal(s) == IsUnsignedDecimal(Unsigned(s), ExponentMarks(Unsigned(s)))

\* 0x, 0o, 0b (in either case) and digits of that base
IsNonDecimalInteger(s) ==
    /\ Len(s) >= 3
    /\ s[1] = 48
    /\ \/ s[2] \in {88, 120} /\ \A i \in 3..Len(s) : IsHexDigit(s[i])
       \/ s[2] \in {79, 111} /\ \A i \in 3..Len(s) : s[i] \in 48..55
       \/ s[2] \in {66, 98} /\ \A i \in 3..Len(s) : s[i] \in 48..49

IsNumericLiteral(s) == s = <<>> \/ IsDecimal(s) \/ IsNonDecimalInteger(s)

IsNumeric(value) == IsNumericLiteral(Trim(value))

\* function parseSpotlightValue(value)
parseSpotlightValue(value) ==
    IF value = stext.nullLiteral THEN ParsedNull
    ELSE IF StartsWith(value, <<40>>) /\ EndsWith(value, <<41>>)
    THEN IF Trim(SubSeq(value, 2, Len(value) - 1)) = <<>> THEN ParsedList(<<>>)
         ELSE ParsedList(ListItems(Trim(SubSeq(value, 2, Len(value) - 1))))
    ELSE IF StartsWith(value, <<34>>) /\ EndsWith(value, <<34>>)
    THEN ParsedString(SubSeq(value, 2, Len(value) - 1))
    ELSE IF IsNumeric(value) THEN ParsedNumber(value)
    ELSE ParsedString(value)

\* line.match(/^(\w+)\s+=\s+(.+)$/): nameEnd is where the name ends, eq the
\* position the "=" must be at.
LineMatchesAt(line, nameEnd, eq) ==
    /\ nameEnd >= 1
    /\ eq > nameEnd + 1
    /\ eq + 2 <= Len(line)
    /\ line[eq] = 61
    /\ IsSpace(line[eq + 1])

EqualsAt(line) == RunEnd(line, RunEnd(line, 1, IsWordChar) + 1, IsSpace) + 1

LineMatches(line) ==
    /\ line # <<>>
    /\ LineMatchesAt(line, RunEnd(line, 1, IsWordChar), EqualsAt(line))

\* The groups of the match: name, and value.trim()
LineName(line) == SubSeq(line, 1, RunEnd(line, 1, IsWordChar))
LineValue(line) == Trim(SubSeq(line, EqualsAt(line) + 1, Len(line)))

\* The loop keeping every line that has the form of an attribute.
KeptLinesOfAnyName(lines, safe) == SelectSeq(lines, LineMatches)

\* The lines of the output that getSpotlightAttributes keeps.
KeptLines(lines, safe) ==
    SelectSeq(lines, LAMBDA l : LineMatches(l)
                                /\ \E i \in 1..Len(safe) : safe[i] = LineName(l))

\* The loop over the lines of the output of mdls: a later line for a name
\* replaces an earlier one.
AttributesOf(kept) ==
    [n \in {LineName(kept[i]) : i \in 1..Len(kept)} |->
        parseSpotlightValue(
            LineValue(kept[Max({i \in 1..Len(kept) : LineName(kept[i]) = n})]))]

ParseMdls(stdout, safe) == AttributesOf(KeptLines(Split(stdout, ch.lf), safe))

\* What getFileMetadata gives for one path: null, or the result (its
\* fields path, name and attributes; kind, modified and size are left out).
NoResult == [kind |-> "null", path |-> <<>>, name |-> <<>>, attributes |-> <<>>]
Pending == [kind |-> "pending", path |-> <<>>, name |-> <<>>, attributes |-> <<>>]
Result(path, found) ==
    [kind |-> "result", path |-> path, name |-> Basename(path),
     attributes |-> found]

\* The strings of a list of JS strings.
Strings(list) == [i \in 1..Len(list) |-> list[i].str]

\* const args = ['--name', ...safeAttrs, path]
MdlsCommand(safe, path) ==
    Command(stext.mdls,
            <<Fixed(stext.name)>> \o [i \in 1..Len(safe) |-> Given(safe[i])]
                \o <<Given(path)>>)

\* The scope loop pushing the directory as the caller gave it.
ScopeArgsAsGiven(scope, links, dir) ==
    Flatten([i \in 1..Len(scope) |->
        IF validatePath(scope[i], links, dir).kind = "ok"
        THEN <<Fixed(stext.onlyin), Given(scope[i].str)>>
        ELSE <<>>])

\* spotlightSearch, lines 51-61: the -onlyin arguments of the scope
\* directories validatePath accepts.
ScopeArgs(scope, links, dir) ==
    Flatten([i \in 1..Len(scope) |->
        IF validatePath(scope[i], links, dir).kind = "ok"
        THEN <<Fixed(stext.onlyin), Given(validatePath(scope[i], links, dir).path)>>
        ELSE <<>>])

\* The paths validatePath returns when called on each of the strings.
ValidatedOf(strings, links, dir) ==
    {v.path : v \in {w \in {validatePath(Str(strings[i]), links, dir) :
                                i \in 1..Len(strings)} : w.kind = "ok"}}

\* paths.filter(p => isPathAllowed(p))
AllowedPaths(paths, links, dir) ==
    SelectSeq(paths, LAMBDA p : isPathAllowed(Str(p), links, dir))

\* slice taking one element more than the limit.
SliceInclusive(list, limit) ==
    SubSeq(list, 1, IF limit + 1 < Len(list) THEN limit + 1 ELSE Len(list))

\* allowedPaths.slice(0, limit), limit not negative
Slice(list, limit) == SubSeq(list, 1, IF limit < Len(list) THEN limit ELSE Len(list))

\* The limit of spotlightSearch when the caller gives none.
DefaultLimit == 100

MaxLines == 2

\* The lines mdfind may write: a file in the sandbox, /etc, and a file under
\* a directory of /etc that is named "%2e%2e",
\* '/etc/%2e%2e/Users/macbook/Documents/Dropository/x'.
FoundCandidates ==
    { RootDropository \o <<47, 120>>,
      Etc,
      Etc \o <<47, 37, 50, 101, 37, 50, 101>> \o RootDropository \o <<47, 120>> }

\* What mdfind writes to stdout: one path per line.
SearchOutputs ==
    {Flatten([i \in 1..Len(ls) |-> ls[i] \o <<ch.lf>>]) :
        ls \in UNION {[1..n -> FoundCandidates] : n \in 0..MaxLines}}

\* What mdls writes to stdout: 'kMDItemDisplayName = "x"', the same with
\* (null), and a line for a name that was not asked for after one with a list.
MdlsOutputs ==
    { AttrDisplayName \o <<32, 61, 32, 34, 120, 34, 10>>,
      AttrDisplayName \o <<32, 61, 32, 40, 110, 117, 108, 108, 41, 10>>,
      AttrDisplayName \o <<32, 61, 32, 40, 34, 97, 34, 44, 32, 98, 41, 10>> \o AttrTag \o <<32, 32, 32, 61, 32, 49, 50, 10>> }

\* '/Users/macbook/Documents/Dropository/x/../y'
UnnormalizedDir ==
    RootDropository \o <<47, 120, 47, 46, 46, 47, 121>>

\* The scope directories of a search: none, /etc, and two directories of
\* the sandbox around /etc, the first of them written with a ".." segment.
Scopes ==
    { <<>>, <<Str(Etc)>>,
      <<Str(UnnormalizedDir), Str(Etc), Str(RootDropository)>> }

\* The attributes asked for: none, a name, "a;" and a name, "a/b" alone.
RequestedAttributes ==
    { <<>>, <<Str(AttrDisplayName)>>, <<Str(<<97, 59>>), Str(AttrDisplayName)>>,
      <<Str(<<97, 47, 98>>)>> }

SearchLimits == {0, 1, DefaultLimit}

Searches ==
    {[op |-> "search", query |-> QueryAllMarkdown, scope |-> sc, limit |-> l,
      attributes |-> a, filePath |-> JsUndefined] :
        sc \in Scopes, l \in SearchLimits, a \in RequestedAttributes}
    \cup
    {[op |-> "reindex", query |-> <<>>, scope |-> <<>>, limit |-> 0,
      attributes |-> <<>>, filePath |-> p] : p \in ServicePaths \cup {JsNull}}

SpotIdle ==
    /\ search = [op |-> "none", query |-> <<>>, scope |-> <<>>, limit |-> 0,
                 attributes |-> <<>>, filePath |-> JsUndefined]
    /\ spc = "idle"
    /\ foundPaths = <<>>
    /\ limitedPaths = <<>>
    /\ truncated = FALSE
    /\ results = <<>>
    /\ sresponse = NoResponse

SpotInit ==
    /\ search \in Searches
    /\ spc = "ready"
    /\ foundPaths = <<>>
    /\ limitedPaths = <<>>
    /\ truncated = FALSE
    /\ results = <<>>
    /\ sresponse = NoResponse

\* spotlightSearch, lines 68-80, on the output of mdfind
SearchFound(allowed) ==
    /\ truncated' = (Len(allowed) > search.limit)
    /\ limitedPaths' = Slice(allowed, search.limit)
    /\ results' = [i \in 1..Len(Slice(allowed, search.limit)) |-> Pending]
    /\ spc' = "metadata"
    /\ UNCHANGED sresponse

\* spotlightSearch, lines 87-90: the catch block
SearchFailed(message) ==
    /\ sresponse' = Threw(stext.searchFailed \o sanitizeErrorMessage(Str(message)))
    /\ spc' = "done"
    /\ UNCHANGED <<limitedPaths, truncated, results>>

\* spotlightSearch up to the metadata of the results: cmd is the mdfind
\* command it runs.
SearchRun(cmd) ==
    /\ execLog' = Append(execLog, cmd)
    /\ \/ \E stdout \in SearchOutputs :
            \E allowed \in {AllowedPaths(OutputLines(stdout), symlinks, cwd)} :
                /\ foundPaths' = OutputLines(stdout)
                /\ SearchFound(allowed)
                /\ validatedSet' = validatedSet
                      \cup ValidatedOf(Strings(search.scope), symlinks, cwd)
                      \cup ValidatedOf(allowed, symlinks, cwd)
       \/ /\ SearchFailed(ExecErrorMessage(cmd, StderrMdfind))
          /\ UNCHANGED foundPaths
          /\ validatedSet' = validatedSet
                \cup ValidatedOf(Strings(search.scope), symlinks, cwd)

\* export async function spotlightSearch(query, scope, limit, attributes)
Search ==
    /\ spc = "ready"
    /\ search.op = "search"
    /\ \E cmd \in {Command(stext.mdfind,
                             ScopeArgs(search.scope, symlinks, cwd)
                                 \o <<Given(search.query)>>)} :
          SearchRun(cmd)
    /\ UNCHANGED <<serverVars, fnVars, envVars, pathVars, attrVars, xattrVars, search, auditLog>>

\* getSpotlightAttributes(path, attrs) once safeAttrs is not empty: the
\* command is run; its failure is ignored.
SpotlightAttributes(i, path, safe) ==
    /\ execLog' = Append(execLog, MdlsCommand(safe, path))
    /\ \/ \E stdout \in MdlsOutputs :
            results' = [results EXCEPT ![i] = Result(path, ParseMdls(stdout, safe))]
       \/ results' = [results EXCEPT ![i] = Result(path, <<>>)]

\* getFileMetadata(path, requestedAttrs) for the i-th of the limited paths
FileMetadata(i, path, safe) ==
    \/ \* stat fails
       /\ results' = [results EXCEPT ![i] = NoResult]
       /\ UNCHANGED execLog
    \/ IF safe # <<>>
       THEN SpotlightAttributes(i, path, safe)
       ELSE /\ results' = [results EXCEPT ![i] = Result(path, <<>>)]
            /\ UNCHANGED execLog

\* One of the calls limitedPaths.map(p => getFileMetadata(p, attributes))
\* that Promise.all waits for.
Metadata ==
    /\ spc = "metadata"
    /\ \E i \in 1..Len(results) :
          /\ results[i] = Pending
          /\ FileMetadata(i, limitedPaths[i],
                          Strings(sanitizeAttributes(search.attributes)))
    /\ UNCHANGED <<serverVars, fnVars, envVars, pathVars, attrVars, xattrVars, search, spc,
                   foundPaths, limitedPaths, truncated, sresponse, auditLog,
                   validatedSet>>

\* spotlightSearch: return { results, count, truncated }
SearchReturn ==
    /\ spc = "metadata"
    /\ \A i \in 1..Len(results) : results[i] # Pending
    /\ sresponse' = Gave([results |-> SelectSeq(results, LAMBDA r : r # NoResult),
                          count |-> Len(SelectSeq(results, LAMBDA r : r # NoResult)),
                          truncated |-> truncated])
    /\ spc' = "done"
    /\ UNCHANGED <<serverVars, fnVars, envVars, pathVars, attrVars, xattrVars, search,
                   foundPaths, limitedPaths,
                   truncated, results, logVars>>

\* spotlightReindex after validatePath returned path
ReindexRun(path, cmd) ==
    /\ execLog' = Append(execLog, cmd)
    /\ validatedSet' = validatedSet \cup {path}
    /\ \/ sresponse' = Gave([path |-> Str(path), queued |-> TRUE,
                             message |-> stext.reindexQueued])
       \/ sresponse' = Gave([path |-> Str(path), queued |-> FALSE,
                             message |-> stext.reindexFailed \o sanitizeErrorMessage(
                                 Str(ExecErrorMessage(cmd, StderrMdimport)))])

\* export async function spotlightReindex(filePath)
Reindex ==
    /\ spc = "ready"
    /\ search.op = "reindex"
    /\ \E v \in {validatePath(search.filePath, symlinks, cwd)} :
          IF v.kind = "err"
          THEN /\ sresponse' = Gave([path |-> search.filePath, queued |-> FALSE,
                                     message |-> stext.validationFailed
                                                    \o ErrorMessage(v.error)])
               /\ UNCHANGED <<execLog, validatedSet>>
          ELSE ReindexRun(v.path, Command(stext.mdimport, <<Given(v.path)>>))
    /\ spc' = "done"
    /\ UNCHANGED <<serverVars, fnVars, envVars, pathVars, attrVars, xattrVars, search,
                   foundPaths, limitedPaths,
                   truncated, results, auditLog>>

SpotlightNext == Search \/ Metadata \/ SearchReturn \/ Reindex

-----------------------------------------------------------------------------
(* sanitizeErrorMessage called on its own *)

MaxTokens == 5

\* The pieces error messages are put together from: '/', '/a', '.', './',
\* ': ', ' ' and "'".
MessagePieces ==
    { <<47>>, <<47, 97>>, <<46>>, <<46, 47>>, <<58, 32>>, <<32>>, <<39>> }

MessageInputs ==
    {Str(Flatten(ps)) : ps \in UNION {[1..n -> MessagePieces] : n \in 0..MaxTokens}}
        \cup {JsNull, JsUndefined, JsNumber}

SanitizerInit ==
    /\ fnArg \in MessageInputs
    /\ fnResult = <<>>
    /\ fpc = "input"

\* sanitizeErrorMessage(message)
SanitizeMessage ==
    /\ fpc = "input"
    /\ fnResult' = sanitizeErrorMessage(fnArg)
    /\ fpc' = "done"
    /\ UNCHANGED <<serverVars, fnArg, envVars, spotVars, pathVars, attrVars, xattrVars,
                   logVars>>

SanitizerNext == SanitizeMessage

-----------------------------------------------------------------------------
(* parseSpotlightValue called on its own *)

MaxValuePieces == 4

\* The pieces values are put together from: '(null)', '(', ')', '"', 'a',
\* ',', ' ', '4', 'e', '-' and '.'.
ValuePieces ==
    { stext.nullLiteral, <<40>>, <<41>>, <<34>>, <<97>>, <<44>>, <<32>>, <<52>>,
      <<101>>, <<45>>, <<46>> }

ValueInputs ==
    {Str(Flatten(ps)) : ps \in UNION {[1..n -> ValuePieces] : n \in 0..MaxValuePieces}}

ParserInit ==
    /\ fnArg \in ValueInputs
    /\ fnResult = <<>>
    /\ fpc = "input"

\* parseSpotlightValue(value)
ParseValue ==
    /\ fpc = "input"
    /\ fnResult' = parseSpotlightValue(fnArg.str)
    /\ fpc' = "done"
    /\ UNCHANGED <<serverVars, fnArg, envVars, spotVars, pathVars, attrVars, xattrVars,
                   logVars>>

ParserNext == ParseValue

-----------------------------------------------------------------------------
(* setXattrs calls of two requests in flight *)

\* handleRequest awaits the handler of POST /api/xattr/set, and setXattrs
\* awaits every command it runs: while one call waits for a command, the
\* call of another request runs. A step of a call is a command taking
\* effect on the file together with what the call does with its result.
Callers == {1, 2}

\* The file both requests name.
RacePath == Str(RootDropository \o <<47, 120>>)

RaceNames == {CommonAttributes.QUARANTINE, AttrTag}

\* The calls: one attribute, written as text, as an object, or deleted, with
\* and without create_only.
RaceRequests ==
    {[filePath |-> RacePath, attrs |-> <<[name |-> n, value |-> v]>>,
      createOnly |-> c] :
        n \in RaceNames, v \in SetValues, c \in BOOLEAN}

NoCall ==
    [request |-> [filePath |-> JsUndefined, attrs |-> <<>>, createOnly |-> FALSE],
     xpc |-> "idle", validatedPath |-> <<>>, existingAttrs |-> <<>>, idx |-> 0,
     setNames |-> <<>>, deletedNames |-> <<>>, failedItems |-> <<>>,
     response |-> NoResponse, listTool |-> "none"]

NewCall(req) == [NoCall EXCEPT !.request = req, !.xpc = "ready"]

RaceIdle == calls = [c \in Callers |-> NoCall]

RaceInit ==
    /\ calls \in {[c \in Callers |-> NewCall(rs[c])] : rs \in [Callers -> RaceRequests]}
    /\ store \in Stores
    /\ request = [op |-> "none", filePath |-> JsUndefined, attribute |-> JsUndefined,
                  attrs |-> <<>>, createOnly |-> FALSE]
    /\ xpc = "idle"
    /\ validatedPath = <<>>
    /\ existingAttrs = <<>>
    /\ attrList = <<>>
    /\ idx = 0
    /\ setNames = <<>>
    /\ deletedNames = <<>>
    /\ failedItems = <<>>
    /\ attributes = <<>>
    /\ response = NoResponse
    /\ listTool = "none"

\* The variables of the single call, which the calls in flight leave alone.
SingleCall ==
    <<request, xpc, validatedPath, existingAttrs, attrList, idx, setNames,
      deletedNames, failedItems, attributes, response, listTool>>

\* setXattrs, lines 328-339, of call c
RaceBegin(c) ==
    /\ calls[c].xpc = "ready"
    /\ \E v \in {validatePath(calls[c].request.filePath, symlinks, cwd)} :
          IF v.kind = "err"
          THEN /\ calls' = [calls EXCEPT ![c].response = Threw(ErrorMessage(v.error)),
                                         ![c].xpc = "done"]
               /\ UNCHANGED validatedSet
          ELSE /\ calls' = [calls EXCEPT
                      ![c].validatedPath = v.path,
                      ![c].idx = IF calls[c].request.createOnly THEN 0 ELSE 1,
                      ![c].xpc = IF calls[c].request.createOnly
                                 THEN "set_list" ELSE "set_loop"]
               /\ validatedSet' = validatedSet \cup {v.path}
    /\ UNCHANGED <<lockVars, httpVars, fnVars, envVars, spotVars, pathVars,
                   attrVars, SingleCall,
                   store, execLog, auditLog>>

\* setXattrs, lines 341-346, of call c: the listing of the file as it is
\* when the tool reads it
RaceList(c) ==
    /\ calls[c].xpc = "set_list"
    /\ \E tool \in ListOutcomes :
          \E r \in {listXattrs(Str(calls[c].validatedPath), symlinks, cwd, store, tool)} :
              /\ execLog' = execLog \o r.exec
              /\ auditLog' = auditLog \o r.audit
              /\ validatedSet' = validatedSet \cup r.validated
              /\ calls' = IF r.response.kind = "throw"
                          THEN [calls EXCEPT ![c].response = r.response,
                                             ![c].listTool = tool,
                                             ![c].xpc = "done"]
                          ELSE [calls EXCEPT
                                    ![c].existingAttrs = r.response.value.attributes,
                                    ![c].listTool = tool,
                                    ![c].idx = 1,
                                    ![c].xpc = "set_loop"]
    /\ UNCHANGED <<lockVars, httpVars, fnVars, envVars, spotVars, pathVars,
                   attrVars, SingleCall, store>>

\* The catch block of the loop in call k
RaceCatch(c, k, name, message) ==
    /\ calls' = [calls EXCEPT
           ![c].failedItems = Append(k.failedItems, [name |-> name, error |-> message]),
           ![c].idx = k.idx + 1]
    /\ auditLog' = Append(auditLog, Audit("set", k.validatedPath, Str(name), FALSE))
    /\ UNCHANGED store

\* xattr -d name path, run by call k
RaceDelete(c, k, name, del) ==
    /\ execLog' = Append(execLog, del)
    /\ \/ /\ name \in DOMAIN store
          /\ store' = [n \in DOMAIN store \ {name} |-> store[n]]
          /\ calls' = [calls EXCEPT ![c].deletedNames = Append(k.deletedNames, name),
                                    ![c].idx = k.idx + 1]
          /\ auditLog' = Append(auditLog,
                 Audit("delete", k.validatedPath, Str(name), TRUE))
       \/ /\ name \notin DOMAIN store
          /\ RaceCatch(c, k, name,
                 ExecErrorMessage(del, StderrNoSuchXattr(k.validatedPath, name)))
       \/ RaceCatch(c, k, name, ExecErrorMessage(del, StderrDenied(k.validatedPath)))

\* xattr -w name value path, run by call k
RaceWrite(c, k, name, text, write) ==
    /\ execLog' = Append(execLog, write)
    /\ \/ /\ store' = [n \in DOMAIN store \cup {name} |->
                         IF n = name THEN text ELSE store[n]]
          /\ calls' = [calls EXCEPT ![c].setNames = Append(k.setNames, name),
                                    ![c].idx = k.idx + 1]
          /\ auditLog' = Append(auditLog, Audit("set", k.validatedPath, Str(name), TRUE))
       \/ RaceCatch(c, k, name, ExecErrorMessage(write, StderrDenied(k.validatedPath)))

\* setXattrs, lines 348-372, of call k: one turn of the loop
RaceTurn(c, k, name, value) ==
    IF value.type = "null"
    THEN RaceDelete(c, k, name,
             Command(xtext.xattr, <<Fixed(xtext.d), Given(name), Given(k.validatedPath)>>))
    ELSE IF k.request.createOnly
            /\ \E i \in 1..Len(k.existingAttrs) : k.existingAttrs[i] = name
    THEN /\ calls' = [calls EXCEPT
               ![c].failedItems = Append(k.failedItems,
                   [name |-> name, error |-> xtext.alreadyExists]),
               ![c].idx = k.idx + 1]
         /\ UNCHANGED <<store, execLog, auditLog>>
    ELSE RaceWrite(c, k, name, ValueString(value),
             Command(xtext.xattr, <<Fixed(xtext.w), Given(name),
                                    Given(ValueString(value)), Given(k.validatedPath)>>))

RaceAttr(c) ==
    /\ calls[c].xpc = "set_loop"
    /\ calls[c].idx <= Len(calls[c].request.attrs)
    /\ RaceTurn(c, calls[c], calls[c].request.attrs[calls[c].idx].name,
                calls[c].request.attrs[calls[c].idx].value)
    /\ UNCHANGED <<lockVars, httpVars, fnVars, envVars, spotVars, pathVars,
                   attrVars, SingleCall,
                   validatedSet>>

\* setXattrs of call c: return { path: validatedPath, set, deleted, failed }
RaceReturn(c) ==
    /\ calls[c].xpc = "set_loop"
    /\ calls[c].idx > Len(calls[c].request.attrs)
    /\ calls' = [calls EXCEPT
           ![c].response = Gave([path |-> calls[c].validatedPath,
                                 set |-> calls[c].setNames,
                                 deleted |-> calls[c].deletedNames,
                                 failed |-> calls[c].failedItems]),
           ![c].xpc = "done"]
    /\ UNCHANGED <<lockVars, httpVars, fnVars, envVars, spotVars, pathVars,
                   attrVars, SingleCall,
                   store, logVars>>

RaceStep(c) == RaceBegin(c) \/ RaceList(c) \/ RaceAttr(c) \/ RaceReturn(c)

RaceNext == \E c \in Callers : RaceStep(c)

-----------------------------------------------------------------------------
(* HTTP server *)

RATE_LIMIT_WINDOW == 60000
RATE_LIMIT_MAX == 100

\* The texts of server.ts.
htext ==
    [ health |-> <<47, 104, 101, 97, 108, 116, 104>>,                \* '/health'
      tools |-> <<47, 97, 112, 105, 47, 116, 111, 111, 108, 115, 47>>, \* '/api/tools/'
      unknown |-> <<117, 110, 107, 110, 111, 119, 110>>,             \* 'unknown'
      \* '/api/xattr/list'
      xattrList |-> <<47, 97, 112, 105, 47, 120, 97, 116, 116, 114, 47, 108,
                      105, 115, 116>>,
      \* '/api/nothing'
      nothing |-> <<47, 97, 112, 105, 47, 110, 111, 116, 104, 105, 110, 103>>,
      \* '10.0.0.1'
      address |-> <<49, 48, 46, 48, 46, 48, 46, 49>> ]

\* The keys of `routes` that the requests below can name.
Routes == {<<"GET", htext.health>>, <<"POST", htext.xattrList>>}

\* req.socket.remoteAddress || 'unknown'
ClientIp(r) ==
    IF r.remoteAddress.type = "string" /\ r.remoteAddress.str # <<>>
    THEN r.remoteAddress.str
    ELSE htext.unknown

\* The rate-limit block letting a request through while count <= RATE_LIMIT_MAX.
RateLimitInclusive(map, ip, now) ==
    IF ip \notin DOMAIN map \/ now > map[ip].resetTime
    THEN [map |-> [k \in DOMAIN map \cup {ip} |->
                      IF k = ip
                      THEN [count |-> 1, resetTime |-> now + RATE_LIMIT_WINDOW]
                      ELSE map[k]],
          limited |-> FALSE]
    ELSE IF map[ip].count > RATE_LIMIT_MAX
    THEN [map |-> map, limited |-> TRUE]
    ELSE [map |-> [map EXCEPT ![ip].count = map[ip].count + 1], limited |-> FALSE]

\* handleRequest, lines 161-172: the rate-limit block for the address ip at
\* the time now. limited: the request is answered 429.
RateLimit(map, ip, now) ==
    IF ip \notin DOMAIN map \/ now > map[ip].resetTime
    THEN [map |-> [k \in DOMAIN map \cup {ip} |->
                      IF k = ip
                      THEN [count |-> 1, resetTime |-> now + RATE_LIMIT_WINDOW]
                      ELSE map[k]],
          limited |-> FALSE]
    ELSE IF map[ip].count >= RATE_LIMIT_MAX
    THEN [map |-> map, limited |-> TRUE]
    ELSE [map |-> [map EXCEPT ![ip].count = map[ip].count + 1], limited |-> FALSE]

\* handleRequest, lines 175-198: the answers the dispatch of a request can
\* end with. A handler answers 200, or throws and the catch answers 500; an
\* unknown tool and an unknown route are answered 404.
Dispatch(method, url) ==
    IF <<method, url>> \in Routes
    THEN {[status |-> 200, ran |-> TRUE], [status |-> 500, ran |-> TRUE]}
    ELSE IF method = "POST" /\ StartsWith(url, htext.tools)
    THEN {[status |-> 200, ran |-> TRUE], [status |-> 500, ran |-> TRUE],
          [status |-> 404, ran |-> FALSE]}
    ELSE {[status |-> 404, ran |-> FALSE]}

\* The request goes through the rate-limit block.
IsRateLimited(r) == r.method # "OPTIONS" /\ ~StartsWith(r.url, htext.health)

\* The requests: a health check, a preflight, a call of a route and a call
\* of no route, from an address and from a socket without one.
HttpRequests ==
    {[remoteAddress |-> a, method |-> k[1], url |-> k[2]] :
        a \in {Str(htext.address), JsUndefined},
        k \in {<<"GET", htext.health>>, <<"OPTIONS", htext.xattrList>>,
               <<"POST", htext.xattrList>>, <<"GET", htext.nothing>>}}

\* The times requests are received at: the start, the end of the window
\* that opens at the start, and the millisecond after it.
ArrivalTimes == {0, RATE_LIMIT_WINDOW, RATE_LIMIT_WINDOW + 1}

\* How many requests come from sockets without a remote address.
MaxOthers == 2

ClientIps == {ClientIp(r) : r \in HttpRequests}

NoRequest == [remoteAddress |-> JsUndefined, method |-> "none", url |-> <<>>]
NoReply == [status |-> 0, ran |-> FALSE]

HttpIdle ==
    /\ rateLimitMap = <<>>
    /\ clock = 0
    /\ httpRequest = NoRequest
    /\ httpReply = NoReply
    /\ opened = [ip \in ClientIps |-> -1]
    /\ passed = [ip \in ClientIps |-> 0]
    /\ others = 0

\* The request received at t falls into the window of its address.
InWindow(ip, t) == opened[ip] # -1 /\ t <= opened[ip] + RATE_LIMIT_WINDOW

\* The windows after a request of ip received at t that went through the
\* rate-limit block and got the answer reply.
Observe(ip, t, reply) ==
    /\ opened' = IF InWindow(ip, t) THEN opened ELSE [opened EXCEPT ![ip] = t]
    /\ passed' = [passed EXCEPT ![ip] =
                     (IF InWindow(ip, t) THEN passed[ip] ELSE 0)
                         + (IF reply.status = 429 THEN 0 ELSE 1)]

\* handleRequest from the rate-limit block on
Limit(r, t, lim) ==
    /\ rateLimitMap' = lim.map
    /\ \E reply \in IF lim.limited THEN {[status |-> 429, ran |-> FALSE]}
                    ELSE Dispatch(r.method, r.url) :
          /\ httpReply' = reply
          /\ Observe(ClientIp(r), t, reply)

\* async function handleRequest(req, res), for the request r received at t
Handle(r, t) ==
    IF r.method = "OPTIONS"
    THEN /\ httpReply' = [status |-> 204, ran |-> FALSE]
         /\ UNCHANGED <<rateLimitMap, opened, passed>>
    ELSE IF StartsWith(r.url, htext.health)
    THEN /\ httpReply' \in Dispatch(r.method, r.url)
         /\ UNCHANGED <<rateLimitMap, opened, passed>>
    ELSE Limit(r, t, RateLimit(rateLimitMap, ClientIp(r), t))

HandleRequest ==
    /\ \E r \in HttpRequests, t \in ArrivalTimes :
          /\ t >= clock
          /\ r.remoteAddress = JsUndefined => others < MaxOthers
          /\ others' = IF r.remoteAddress = JsUndefined THEN others + 1 ELSE others
          /\ clock' = t
          /\ httpRequest' = r
          /\ Handle(r, t)
    /\ UNCHANGED <<lockVars, raceVars, fnVars, envVars, spotVars, pathVars,
                   attrVars, xattrVars, logVars>>

HttpNext == HandleRequest

-----------------------------------------------------------------------------
(* InterLock socket adapter *)

\* export const FG_SIGNALS
FG_SIGNALS ==
    [ XATTR_QUERY |-> 112, XATTR_LIST |-> 113, XATTR_QUERY_RESPONSE |-> 114,
      XATTR_LIST_RESPONSE |-> 115, SPOTLIGHT_QUERY |-> 116,
      SPOTLIGHT_QUERY_RESPONSE |-> 117, SPOTLIGHT_INDEXED |-> 118,
      WATCH_LIST |-> 119, WATCH_LIST_RESPONSE |-> 120, FS_WATCH_EVENT |-> 121,
      FILE_METADATA_REQUEST |-> 122, FILE_METADATA_RESPONSE |-> 123,
      STATUS_REQUEST |-> 124, STATUS_RESPONSE |-> 125, FS_XATTR_UPDATED |-> 126 ]

\* A signal type: a number of FG_SIGNALS, or one of the SignalTypes of
\* @bop/interlock, whose numbers the adapter does not define.
Numbered(n) == [std |-> "", code |-> n]
Standard(name) == [std |-> name, code |-> 0]

\* STRING_TO_NUMERIC[type] ?? SignalTypes.PING
StringToNumeric(type) ==
    CASE type = "ping" -> Standard("PING")
      [] type = "pong" -> Standard("PONG")
      [] type = "heartbeat" -> Standard("HEARTBEAT")
      [] type = "announce" -> Standard("DOCK_REQUEST")
      [] type = "departure" -> Standard("DISCONNECT")
      [] type = "status_request" -> Numbered(FG_SIGNALS.STATUS_REQUEST)
      [] type = "xattr_query" -> Numbered(FG_SIGNALS.XATTR_QUERY)
      [] type = "xattr_list" -> Numbered(FG_SIGNALS.XATTR_LIST)
      [] type = "spotlight_query" -> Numbered(FG_SIGNALS.SPOTLIGHT_QUERY)
      [] type = "watch_list" -> Numbered(FG_SIGNALS.WATCH_LIST)
      [] type = "file_metadata_request" -> Numbered(FG_SIGNALS.FILE_METADATA_REQUEST)
      [] OTHER -> Standard("PING")

\* How many times startInterlock is called.
MaxCalls == 2
\* How many signals are given to the sockets.
MaxSent == 5

SocketIds == 1..MaxCalls

\* The signals that arrive: the six requests, an event and a response.
IncomingTypes ==
    { FG_SIGNALS.XATTR_QUERY, FG_SIGNALS.XATTR_LIST, FG_SIGNALS.SPOTLIGHT_QUERY,
      FG_SIGNALS.WATCH_LIST, FG_SIGNALS.FILE_METADATA_REQUEST,
      FG_SIGNALS.STATUS_REQUEST, FG_SIGNALS.FS_WATCH_EVENT,
      FG_SIGNALS.STATUS_RESPONSE }

\* The types sendSignal is called with.
OutgoingTypes == {FG_SIGNALS.FS_WATCH_EVENT, FG_SIGNALS.FS_XATTR_UPDATED}

\* The names broadcastSignal is called with by other modules.
BroadcastNames == {"heartbeat", "xattr_updated"}

NothingSent == [kind |-> "none", type |-> Standard(""), via |-> 0, request |-> 0]

LockIdle ==
    /\ socket = 0
    /\ sockets = <<>>
    /\ heartbeatTimer = 0
    /\ timers = {}
    /\ starting = {}
    /\ stopping = {}
    /\ answering = {}
    /\ sent = 0
    /\ lastSent = NothingSent
    /\ stopped = FALSE

\* socket.send(...) and socket.broadcast(...): the signals given to the
\* socket `via`, the last of them last.
Emit(signals, via) ==
    /\ sent' = sent + Len(signals)
    /\ lastSent' = IF signals = <<>> THEN lastSent
                   ELSE [signals[Len(signals)] EXCEPT !.via = via]

\* export function broadcastSignal(type, payload), called when `socket`
\* is sk: the signals it gives to the socket.
broadcastSignal(sk, type) ==
    IF sk = 0 THEN <<>>
    ELSE <<[kind |-> "broadcast", type |-> StringToNumeric(type), via |-> sk,
            request |-> 0]>>

\* export function sendSignal(type, payload, peer)
sendSignal(sk, type) ==
    IF sk = 0 THEN <<>>
    ELSE <<[kind |-> "send", type |-> Numbered(type), via |-> sk, request |-> 0]>>

\* function sendResponse(originalSignal, response, rinfo)
sendResponse(sk, originalType) ==
    IF sk = 0 THEN <<>>
    ELSE <<[kind |-> "response", type |-> Numbered(originalType + 1), via |-> sk,
            request |-> originalType]>>

\* The variables of the other parts of the server.
NotLock ==
    <<raceVars, httpVars, fnVars, envVars, spotVars, pathVars, attrVars,
      xattrVars, logVars>>

\* No startInterlock or stopInterlock call is under way: callers await
\* each call, as main() and shutdown() do.
NoCallUnderWay == starting = {} /\ stopping = {}

\* export function startInterlock(config), up to `await socket.start()`
StartInterlock ==
    /\ Len(sockets) < MaxCalls
    /\ NoCallUnderWay
    /\ socket' = Len(sockets) + 1
    /\ sockets' = Append(sockets, "starting")
    /\ starting' = starting \cup {Len(sockets) + 1}
    /\ stopped' = FALSE
    /\ UNCHANGED <<heartbeatTimer, timers, stopping, answering, sent, lastSent>>
    /\ UNCHANGED NotLock

\* startInterlock after socket.start() of its socket k resolved: the
\* announcement, the heartbeat timer and the first heartbeat
StartResolved ==
    /\ \E k \in starting :
          /\ sent + 2 <= MaxSent \/ socket = 0
          /\ starting' = starting \ {k}
          /\ sockets' = IF sockets[k] = "starting"
                        THEN [sockets EXCEPT ![k] = "started"] ELSE sockets
          /\ heartbeatTimer' = k
          /\ timers' = timers \cup {k}
          /\ Emit(broadcastSignal(socket, "announce")
                      \o broadcastSignal(socket, "heartbeat"), socket)
    /\ UNCHANGED <<socket, stopping, answering, stopped>>
    /\ UNCHANGED NotLock

\* startInterlock after socket.start() of its socket rejected
StartRejected ==
    /\ \E k \in starting :
          /\ starting' = starting \ {k}
          /\ sockets' = IF sockets[k] = "starting"
                        THEN [sockets EXCEPT ![k] = "failed"] ELSE sockets
    /\ UNCHANGED <<socket, heartbeatTimer, timers, stopping, answering, sent,
                   lastSent, stopped>>
    /\ UNCHANGED NotLock

\* The callback of an interval timer that is set
Heartbeat ==
    /\ timers # {}
    /\ sent < MaxSent \/ socket = 0
    /\ Emit(broadcastSignal(socket, "heartbeat"), socket)
    /\ UNCHANGED <<socket, sockets, heartbeatTimer, timers, starting, stopping,
                   answering, stopped>>
    /\ UNCHANGED NotLock

\* export function stopInterlock(), up to `await socket.stop()`; without a
\* socket it resolves at once
StopInterlock ==
    /\ NoCallUnderWay
    /\ sent < MaxSent \/ socket = 0
    /\ timers' = timers \ {heartbeatTimer}
    /\ heartbeatTimer' = 0
    /\ Emit(broadcastSignal(socket, "departure"), socket)
    /\ stopping' = IF socket = 0 THEN stopping ELSE stopping \cup {socket}
    /\ stopped' = IF socket = 0 THEN TRUE ELSE stopped
    /\ UNCHANGED <<socket, sockets, starting, answering>>
    /\ UNCHANGED NotLock

\* stopInterlock after socket.stop() of the socket k resolved
StopResolved ==
    /\ \E k \in stopping :
          /\ stopping' = stopping \ {k}
          /\ sockets' = [sockets EXCEPT ![k] = "stopped"]
    /\ socket' = 0
    /\ stopped' = TRUE
    /\ UNCHANGED <<heartbeatTimer, timers, starting, answering, sent, lastSent>>
    /\ UNCHANGED NotLock

\* A call of sendSignal by another module
SendSignal ==
    /\ sent < MaxSent \/ socket = 0
    /\ \E type \in OutgoingTypes : Emit(sendSignal(socket, type), socket)
    /\ UNCHANGED <<socket, sockets, heartbeatTimer, timers, starting, stopping,
                   answering, stopped>>
    /\ UNCHANGED NotLock

\* A call of broadcastSignal by another module
BroadcastSignal ==
    /\ sent < MaxSent \/ socket = 0
    /\ \E type \in BroadcastNames : Emit(broadcastSignal(socket, type), socket)
    /\ UNCHANGED <<socket, sockets, heartbeatTimer, timers, starting, stopping,
                   answering, stopped>>
    /\ UNCHANGED NotLock

\* socket.on('signal', ...) of a started socket, up to `await
\* handleSignal(legacySignal)`: the tumbler lets the signal pass
SignalReceived ==
    /\ \E k \in 1..Len(sockets) : sockets[k] = "started"
    /\ answering = {}
    /\ \E type \in IncomingTypes : answering' = {type}
    /\ UNCHANGED <<socket, sockets, heartbeatTimer, timers, starting, stopping,
                   sent, lastSent, stopped>>
    /\ UNCHANGED NotLock

\* The listener after handleSignal gave a response for the signal
SignalAnswered ==
    /\ sent < MaxSent \/ socket = 0
    /\ \E type \in answering :
          /\ answering' = answering \ {type}
          /\ Emit(sendResponse(socket, type), socket)
    /\ UNCHANGED <<socket, sockets, heartbeatTimer, timers, starting, stopping,
                   stopped>>
    /\ UNCHANGED NotLock

\* The listener after handleSignal gave nothing
SignalUnanswered ==
    /\ \E type \in answering : answering' = answering \ {type}
    /\ UNCHANGED <<socket, sockets, heartbeatTimer, timers, starting, stopping,
                   sent, lastSent, stopped>>
    /\ UNCHANGED NotLock

LockNext ==
    \/ StartInterlock \/ StartResolved \/ StartRejected \/ Heartbeat
    \/ StopInterlock \/ StopResolved
    \/ SendSignal \/ BroadcastSignal
    \/ SignalReceived \/ SignalAnswered \/ SignalUnanswered

ServerIdle == RaceIdle /\ HttpIdle /\ LockIdle

-----------------------------------------------------------------------------
(* decodeXattrValue called on its own *)

\* The pieces raw attribute values are put together from: the hex pairs
\* '7b' and '7d' (the braces), '31' (the digit 1), 'ff' (no UTF-8), 'c3'
\* and 'a9' (together an e with acute), the single hex digit 'f', ' ', '{'
\* and '}'.
RawPieces ==
    { <<55, 98>>, <<55, 100>>, <<51, 49>>, <<102, 102>>, <<99, 51>>, <<97, 57>>,
      <<102>>, <<32>>, <<123>>, <<125>> }

RawInputs ==
    {Str(Flatten(ps)) : ps \in UNION {[1..n -> RawPieces] : n \in 0..MaxValuePieces}}

DecoderInit ==
    /\ fnArg \in RawInputs
    /\ fnResult = <<>>
    /\ fpc = "input"

\* decodeXattrValue(rawValue, decodePlist)
DecodeValue ==
    /\ fpc = "input"
    /\ \E decodePlist \in BOOLEAN :
          fnResult' = decodeXattrValue(fnArg.str, decodePlist)
    /\ fpc' = "done"
    /\ UNCHANGED <<serverVars, fnArg, envVars, spotVars, pathVars, attrVars, xattrVars,
                   logVars>>

DecoderNext == DecodeValue

InitXattr ==
    /\ cwd = <<ch.slash>>
    /\ symlinks = {}
    /\ PathIdle /\ AttrIdle /\ XattrInit /\ SpotIdle /\ LogIdle /\ FnIdle /\ ServerIdle

SpecXattr == InitXattr /\ [][XattrNext]_vars

InitAttrs ==
    /\ cwd = <<ch.slash>>
    /\ symlinks = {}
    /\ PathIdle /\ AttrInit /\ XattrIdle /\ SpotIdle /\ LogIdle /\ FnIdle /\ ServerIdle

SpecAttrs == InitAttrs /\ [][AttrNext]_vars

InitSpotlight ==
    /\ cwd = <<ch.slash>>
    /\ symlinks = {}
    /\ PathIdle /\ AttrIdle /\ XattrIdle /\ SpotInit /\ LogIdle /\ FnIdle /\ ServerIdle

SpecSpotlight == InitSpotlight /\ [][SpotlightNext]_vars

InitSanitizer ==
    /\ cwd = <<ch.slash>>
    /\ symlinks = {}
    /\ PathIdle /\ AttrIdle /\ XattrIdle /\ SpotIdle /\ LogIdle /\ SanitizerInit /\ ServerIdle

SpecSanitizer == InitSanitizer /\ [][SanitizerNext]_vars

InitParser ==
    /\ cwd = <<ch.slash>>
    /\ symlinks = {}
    /\ PathIdle /\ AttrIdle /\ XattrIdle /\ SpotIdle /\ LogIdle /\ ParserInit /\ ServerIdle

SpecParser == InitParser /\ [][ParserNext]_vars

InitDecoder ==
    /\ cwd = <<ch.slash>>
    /\ symlinks = {}
    /\ PathIdle /\ AttrIdle /\ XattrIdle /\ SpotIdle /\ LogIdle /\ DecoderInit /\ ServerIdle

SpecDecoder == InitDecoder /\ [][DecoderNext]_vars

InitPath == PathInit /\ AttrIdle /\ XattrIdle /\ SpotIdle /\ LogIdle /\ FnIdle /\ ServerIdle

SpecPath == InitPath /\ [][PathNext]_vars

SpecAllowed == InitPath /\ [][AllowedNext]_vars

InitRace ==
    /\ cwd = <<ch.slash>>
    /\ symlinks = {}
    /\ PathIdle /\ AttrIdle /\ RaceInit /\ SpotIdle /\ LogIdle /\ FnIdle
    /\ HttpIdle /\ LockIdle

SpecRace == InitRace /\ [][RaceNext]_vars

InitHttp ==
    /\ cwd = <<ch.slash>>
    /\ symlinks = {}
    /\ PathIdle /\ AttrIdle /\ XattrIdle /\ SpotIdle /\ LogIdle /\ FnIdle
    /\ ServerIdle

SpecHttp == InitHttp /\ [][HttpNext]_vars

InitInterlock ==
    /\ cwd = <<ch.slash>>
    /\ symlinks = {}
    /\ PathIdle /\ AttrIdle /\ XattrIdle /\ SpotIdle /\ LogIdle /\ FnIdle
    /\ ServerIdle

SpecInterlock == InitInterlock /\ [][LockNext]_vars

-----------------------------------------------------------------------------
(* Properties of validatePath *)

HasNul(s) == \E i \in 1..Len(s) : s[i] = ch.nul

\* A non-empty run of name characters: no separator, no escape, no dot.
IsPlainName(s) == s # <<>> /\ \A i \in 1..Len(s) : IsWordChar(s[i])

\* p equals a sandbox root or begins with a root followed by the separator.
IsSandboxPath(p) ==
    \E i \in 1..Len(ALLOWED_ROOTS) :
        \/ p = ALLOWED_ROOTS[i]
        \/ /\ Len(p) > Len(ALLOWED_ROOTS[i])
           /\ SubSeq(p, 1, Len(ALLOWED_ROOTS[i])) = ALLOWED_ROOTS[i]
           /\ p[Len(ALLOWED_ROOTS[i]) + 1] = ch.slash

\* C1: a path validatePath returns is absolute and equals a sandbox root or
\* begins with a root followed by the separator; an input that is a root with
\* name characters appended (no separator) and that is under no other root is
\* rejected.
C1_ReturnedPathIsUnderARoot ==
    /\ outcome.kind = "ok" =>
          /\ outcome.path # <<>>
          /\ outcome.path[1] = ch.slash
          /\ IsSandboxPath(outcome.path)
    /\ \A i \in 1..Len(ALLOWED_ROOTS) :
          ( /\ pc # "input"
            /\ filePath.type = "string"
            /\ Len(filePath.str) > Len(ALLOWED_ROOTS[i])
            /\ SubSeq(filePath.str, 1, Len(ALLOWED_ROOTS[i])) = ALLOWED_ROOTS[i]
            /\ IsPlainName(SubSeq(filePath.str, Len(ALLOWED_ROOTS[i]) + 1, Len(filePath.str)))
            /\ ~IsSandboxPath(filePath.str) )
          => outcome.kind = "err"

\* C1 witness: a path strictly below a root was returned for an input that
\* the normalization changed.
C1_Witness ==
    /\ pc = "validated"
    /\ outcome.kind = "ok"
    /\ outcome.path # filePath.str
    /\ outcome.path \notin {ALLOWED_ROOTS[i] : i \in 1..Len(ALLOWED_ROOTS)}

\* C2: for an input that contains a null character, a returned path
\* contains none.
C2_NoNulInReturnedPath ==
    (filePath.type = "string" /\ HasNul(filePath.str) /\ outcome.kind = "ok")
        => ~HasNul(outcome.path)

C4_Idempotent ==
    pc = "revalidated" => refed = outcome

\* C5: the file an external tool reaches through a returned path, with every
\* symbolic link on the way followed, lies under a sandbox root.
C5_ReturnedPathStaysInSandbox ==
    outcome.kind = "ok" => IsSandboxPath(RealPath(symlinks, outcome.path))

-----------------------------------------------------------------------------
(* Properties of the services *)

\* An argument that is not a fixed flag is acceptable when it is a path
\* validatePath returned during the call, a token of the attribute grammar,
\* or the query given to mdfind.
ArgumentIsMediated(cmd, arg) ==
    \/ arg.flag
    \/ arg.str \in validatedSet
    \/ MatchesAttributePattern(arg.str)
    \/ (cmd.file = stext.mdfind /\ arg.str = search.query)

\* C6: in every invocation of an external tool, each argument that is not a
\* fixed flag is a path returned by validatePath, a token matching
\* ^[A-Za-z_][A-Za-z0-9_]*$, or the free-text search query.
C6_ToolArgumentsAreMediated ==
    \A i \in 1..Len(execLog) :
        \A j \in 1..Len(execLog[i].args) :
            ArgumentIsMediated(execLog[i], execLog[i].args[j])

\* A text holds a path-shaped substring: a match of pathPattern starts in it.
PathShaped(text) == \E i \in 1..Len(text) : PathMatchEnd(text, i) > 0

\* C7: every error text a service call returns or throws to its caller (the
\* thrown message, the error of each entry of failed, the message of the
\* reindex result) holds no path-shaped substring.
C7_ErrorTextsHoldNoPath ==
    /\ response.kind = "throw" => ~PathShaped(response.message)
    /\ \A i \in 1..Len(failedItems) : ~PathShaped(failedItems[i].error)
    /\ sresponse.kind = "throw" => ~PathShaped(sresponse.message)
    /\ (search.op = "reindex" /\ sresponse.kind = "return")
          => ~PathShaped(sresponse.value.message)

\* C8: every path spotlightSearch hands to stat and mdls, and every path in
\* its results, equals a sandbox root or starts with a root followed by the
\* separator.
C8_SearchResultsAreSandboxPaths ==
    /\ \A i \in 1..Len(limitedPaths) : IsSandboxPath(limitedPaths[i])
    /\ \A i \in 1..Len(results) :
          results[i].kind = "result" => IsSandboxPath(results[i].path)

\* A JS value that is a non-empty string of letters, digits and underscores
\* that does not start with a digit.
IsToken(v) ==
    /\ v.type = "string"
    /\ Len(v.str) >= 1
    /\ v.str[1] \notin 48..57
    /\ \A i \in 1..Len(v.str) : v.str[i] \in (48..57) \cup (65..90) \cup (97..122) \cup {95}

\* C9: sanitizeAttributes returns an order-preserving subsequence of its
\* input that holds exactly the elements that are non-empty strings matching
\* ^[A-Za-z_][A-Za-z0-9_]*$.
C9_KeepsExactlyTheTokensInOrder ==
    apc = "done" =>
        \E f \in [1..Len(safeAttrs) -> 1..Len(attrs)] :
            /\ \A i, j \in 1..Len(safeAttrs) : i < j => f[i] < f[j]
            /\ \A i \in 1..Len(safeAttrs) : safeAttrs[i] = attrs[f[i]]
            /\ {f[i] : i \in 1..Len(safeAttrs)} = {k \in 1..Len(attrs) : IsToken(attrs[k])}

\* sanitizeAttributes has kept an element of a list and dropped another.
C9_Witness ==
    /\ apc = "done"
    /\ Len(safeAttrs) >= 1
    /\ Len(attrs) > Len(safeAttrs)

\* How many times name n occurs in the lists set, deleted and failed.
Occurrences(n) ==
    Cardinality({i \in 1..Len(setNames) : setNames[i] = n})
        + Cardinality({i \in 1..Len(deletedNames) : deletedNames[i] = n})
        + Cardinality({i \in 1..Len(failedItems) : failedItems[i].name = n})

\* The command deletes or writes an attribute.
IsAttributeCommand(cmd) == cmd.args[1] \in {Fixed(xtext.d), Fixed(xtext.w)}

\* C10: in setXattrs the failure of the tool for one attribute does not end
\* the call (it throws only before the first attribute is attempted), and
\* when it returns every name of the input is in exactly one of the lists
\* set, deleted and failed.
C10_EveryAttributeIsReported ==
    request.op = "set" =>
        /\ response.kind = "throw" =>
              \A i \in 1..Len(execLog) : ~IsAttributeCommand(execLog[i])
        /\ response.kind = "return" =>
              /\ \A k \in 1..Len(request.attrs) : Occurrences(request.attrs[k].name) = 1
              /\ Len(setNames) + Len(deletedNames) + Len(failedItems) = Len(request.attrs)

\* setXattrs has returned after the tool failed for the first attribute and
\* has set a later one.
C10_Witness ==
    /\ request.op = "set"
    /\ response.kind = "return"
    /\ Len(failedItems) >= 1
    /\ failedItems[1].name = request.attrs[1].name
    /\ failedItems[1].error # xtext.alreadyExists
    /\ Len(setNames) >= 1

\* C11: when the listing tool fails with the benign "No such xattr"
\* failure, listXattrs returns the empty list with count 0; when it fails in
\* any other way, listXattrs throws.
C11_OnlyTheBenignFailureIsSuccess ==
    (request.op = "list" /\ xpc = "done") =>
        /\ listTool = "nosuch" =>
              /\ response.kind = "return"
              /\ response.value.attributes = <<>>
              /\ response.value.count = 0
        /\ listTool = "denied" => response.kind = "throw"

\* The operation setXattrs attempts for name n: the deletion when the value
\* given for it is null, the write otherwise.
AttemptedKind(n) ==
    IF \E k \in 1..Len(request.attrs) :
          request.attrs[k].name = n /\ request.attrs[k].value = JsNull
    THEN "delete"
    ELSE "set"

\* The audit record agrees with what the caller is told: a listing record
\* with whether the listing gave a result, a get record with whether the
\* attribute is in the result (or, for a failure, with the call having
\* thrown), a set or delete record with the list the name is reported in.
RecordMatchesOutcome(r) ==
    CASE r.operation = "list" -> r.success = (response.kind = "return")
      [] r.operation = "get" ->
            IF r.success
            THEN \E k \in 1..Len(attributes) : attributes[k].name = r.attribute.str
            ELSE response.kind = "throw"
      [] OTHER ->
            /\ r.operation = AttemptedKind(r.attribute.str)
            /\ r.success =
                  \/ \E k \in 1..Len(setNames) : setNames[k] = r.attribute.str
                  \/ \E k \in 1..Len(deletedNames) : deletedNames[k] = r.attribute.str

\* C12: every record handed to the audit log carries the kind of the
\* operation attempted, the validated path as target, and a success flag
\* equal to the outcome reported to the caller for that operation or item.
C12_AuditRecordsMatchOutcome ==
    xpc = "done" =>
        \A i \in 1..Len(auditLog) :
            /\ auditLog[i].target \in validatedSet
            /\ RecordMatchesOutcome(auditLog[i])

-----------------------------------------------------------------------------
(* Further properties of validatePath *)

\* The path exists as far as its last component, and that is a symbolic
\* link: no null character is in it, and the file reached by following the
\* links of its directories is a link.
EndsInLink(links, p) ==
    /\ ~HasNul(p)
    /\ IsLink(links, Walk(links, <<ch.slash>>, Components(p), FALSE))

\* What C13 expects of validatePath for the normalized path n.
SymlinkStepDecides(n) ==
    IF EndsInLink(symlinks, n)
    THEN outcome = Thrown("SymlinkRejected")
    ELSE IF IsSandboxPath(n) THEN outcome = Returned(n)
    ELSE outcome = Thrown("OutsideSandbox")

IsInvalidInput(v) == v.type # "string" \/ v.str = <<>>

\* C14: for every input that is not a non-empty string validatePath fails
\* with InvalidInput, whose message begins 'Invalid path', whatever the
\* working directory and the links of the filesystem are.
C14_InvalidInputIsRejected ==
    (pc = "validated" /\ IsInvalidInput(filePath)) =>
        /\ outcome = Thrown("InvalidInput")
        /\ StartsWith(ErrorMessage(outcome.error),
                      <<73, 110, 118, 97, 108, 105, 100, 32, 112, 97, 116, 104>>)

\* validatePath has rejected null where the working directory is a sandbox
\* root and the filesystem holds links.
C14_Witness ==
    /\ pc = "validated"
    /\ filePath = JsNull
    /\ cwd = RootDropository
    /\ symlinks # {}
    /\ outcome = Thrown("InvalidInput")

\* C15: isPathAllowed returns true exactly when validatePath, on the same
\* input in the same filesystem state, returns a path, and false for every
\* failure of validatePath.
C15_AllowedIffValidated ==
    pc = "allowed" => (pathAllowed <=> outcome.kind = "ok")

\* isPathAllowed has returned false for a path of the sandbox that
\* validatePath rejects as a symbolic link.
C15_Witness ==
    /\ pc = "allowed"
    /\ ~pathAllowed
    /\ outcome = Thrown("SymlinkRejected")
    /\ IsSandboxPath(NormalizedOf(filePath.str, cwd))

-----------------------------------------------------------------------------
(* Properties of sanitizeErrorMessage *)

\* A text holds a dangling label: a match of /:\s*\[path\]/ starts in it.
HasDanglingLabel(text) == \E i \in 1..Len(text) : LabelMatchEnd(text, i) > 0

\* Position i of s starts a path-shaped substring: a slash followed by a name
\* character, or "./" (which "../" ends in).
StartsPath(s, i) ==
    /\ i < Len(s)
    /\ \/ s[i] = ch.slash /\ IsPathChar(s[i + 1])
       \/ s[i] = ch.dot /\ s[i + 1] = ch.slash

\* The text holds a path-shaped substring that the input holds too.
HoldsPathOf(input, text) ==
    \E i \in 1..Len(text) : \E j \in 1..Len(input) :
        /\ StartsPath(text, i)
        /\ StartsPath(input, j)
        /\ SubSeq(text, i, i + 1) = SubSeq(input, j, j + 1)

\* C16: sanitizeErrorMessage returns 'Unknown error' for an input that is not
\* a non-empty string, and for every other input a text that holds no
\* path-shaped substring of the input (no slash followed by a name character,
\* no ./ or ../) and no dangling ': [path]' fragment.
C16_SanitizedHoldsNoPath ==
    fpc = "done" =>
        IF IsInvalidInput(fnArg) THEN fnResult = msg.unknownError
        ELSE /\ ~HoldsPathOf(fnArg.str, fnResult)
             /\ ~HasDanglingLabel(fnResult)

\* The same without the dangling fragment: the result holds no path-shaped
\* substring of the input.
C16_NoPathOfTheInput ==
    (fpc = "done" /\ ~IsInvalidInput(fnArg)) => ~HoldsPathOf(fnArg.str, fnResult)

\* The same without the path: the result holds no dangling fragment.
C16_NoDanglingLabel ==
    (fpc = "done" /\ ~IsInvalidInput(fnArg)) => ~HasDanglingLabel(fnResult)

-----------------------------------------------------------------------------
(* Properties of parseSpotlightValue *)

\* The value stands between a pair of double quotes.
IsQuoted(v) == Len(v) >= 2 /\ v[1] = 34 /\ v[Len(v)] = 34

\* One surrounding pair of quotes stripped, where there is one.
StripPair(v) == IF IsQuoted(v) THEN SubSeq(v, 2, Len(v) - 1) ELSE v

\* The comma-separated elements, trimmed, each with its surrounding pair of
\* quotes stripped.
ElementsOf(inner) ==
    [i \in 1..Len(Split(inner, 44)) |-> StripPair(Trim(Split(inner, 44)[i]))]

\* What is between the parentheses, white space at its ends aside.
Between(value) == Trim(SubSeq(value, 2, Len(value) - 1))

\* The cases of the grammar, the first that matches deciding.
ValueOf(value) ==
    IF value = stext.nullLiteral THEN ParsedNull
    ELSE IF Len(value) >= 2 /\ value[1] = 40 /\ value[Len(value)] = 41
    THEN IF Between(value) = <<>> THEN ParsedList(<<>>)
         ELSE ParsedList(ElementsOf(Between(value)))
    ELSE IF value # <<>> /\ value[1] = 34 /\ value[Len(value)] = 34
    THEN ParsedString(SubSeq(value, 2, Len(value) - 1))
    ELSE IF IsNumeric(value) THEN ParsedNumber(value)
    ELSE ParsedString(value)

\* C17: parseSpotlightValue decides by the first matching case: '(null)'
\* gives null; '(' ... ')' gives a list, empty when nothing is between the
\* parentheses, otherwise the comma-separated elements, trimmed, one
\* surrounding pair of quotes stripped per element; a value wrapped in double
\* quotes gives the unwrapped string; a value that parses in full as a number
\* gives that number; anything else gives the raw string.
C17_ParsesByTheFirstMatchingCase ==
    fpc = "done" => fnResult = ValueOf(fnArg.str)

-----------------------------------------------------------------------------
(* Properties of decodeXattrValue *)

\* The bytes a hex-looking raw value stands for, and their text.
BytesOf(raw) == HexBytes(HexDigitsOf(raw))
TextOf(raw) == Utf8Decode(BytesOf(raw), 1, <<>>)

\* The raw value is hex digits and white space, with a digit at least.
IsHexValue(raw) == LooksHex(raw) /\ HexDigitsOf(raw) # <<>>

\* Its bytes decode to valid text without replacement characters.
DecodesToText(raw) ==
    TextOf(raw) # <<>> /\ \A i \in 1..Len(TextOf(raw)) : TextOf(raw)[i] # ch.replacement

\* C18: for a raw value of hex digits and white space whose bytes decode to
\* valid text without replacement characters, decodeXattrValue tags the
\* result 'json' if the text parses as structured data and 'utf8' otherwise,
\* and size is the number of decoded bytes.
C18_TextIsTaggedJsonOrUtf8 ==
    (fpc = "done" /\ IsHexValue(fnArg.str) /\ DecodesToText(fnArg.str)) =>
        /\ fnResult.encoding = (IF IsJson(TextOf(fnArg.str)) THEN "json" ELSE "utf8")
        /\ fnResult.size = Whole(Len(BytesOf(fnArg.str)))

\* C19: for a hex-looking raw value that does not decode to valid text,
\* decodeXattrValue returns the hex string tagged 'hex' with size the whole
\* number of bytes of the decoded value; with an odd number of hex digits
\* the size is never a non-integer.
C19_HexSizeIsWholeBytes ==
    (fpc = "done" /\ IsHexValue(fnArg.str) /\ ~DecodesToText(fnArg.str)) =>
        /\ ~fnResult.size.half
        /\ Len(HexDigitsOf(fnArg.str)) % 2 = 0 =>
              fnResult = XattrValue(Str(HexDigitsOf(fnArg.str)),
                                    Whole(Len(BytesOf(fnArg.str))), "hex")

-----------------------------------------------------------------------------
(* Properties of the decoding loop of validatePath *)

\* What the loop starts from: the input without nulls, in NFC.
LoopInput(s) == NormalizeNFC(StripNulls(s))

\* The loop ended at a fixed point of decodeURIComponent, or at a text that
\* decodeURIComponent throws on: the result of the last round that succeeded.
EndsAtFixedPointOrError(d) ==
    \/ ~decodeURIComponent(d).ok
    \/ decodeURIComponent(d).str = d

\* C20: the percent-decoding loop of validatePath performs at most 10 rounds
\* on any input; it stops at a fixed point, and on a decode error it stops
\* and keeps the result of the last successful round.
C20_AtMostTenRounds ==
    (pc = "validated" /\ ~IsInvalidInput(filePath)) =>
        /\ DecodeRounds(LoopInput(filePath.str)) <= 10
        /\ EndsAtFixedPointOrError(DecodeLoop(LoopInput(filePath.str)))

\* The same without the bound: where the loop stops.
C20_StopsAtFixedPointOrError ==
    (pc = "validated" /\ ~IsInvalidInput(filePath)) =>
        EndsAtFixedPointOrError(DecodeLoop(LoopInput(filePath.str)))


\* The mdfind commands that were run.
MdfindCommands ==
    SelectSeq(execLog, LAMBDA c : c.file = stext.mdfind)

\* The scope directories of the search that validatePath accepts, in the
\* order the caller gave them.
AcceptedScope ==
    SelectSeq(search.scope, LAMBDA d : validatePath(d, symlinks, cwd).kind = "ok")

\* C21: the arguments of the mdfind command are one -onlyin pair for every
\* scope directory validatePath accepted, in the caller's order and holding
\* the path validatePath returned, followed by the query; a rejected
\* directory adds nothing and the search is run all the same. The command
\* is the first one of a search: it is looked at when it has just been run.
C21_ScopeIsTheValidatedDirectories ==
    /\ (search.op = "search" /\ spc # "ready") => Len(execLog) >= 1
    /\ (search.op = "search" /\ Len(execLog) = 1) =>
        /\ Len(MdfindCommands) = 1
        /\ \E args \in {MdfindCommands[1].args} :
              /\ Len(args) = 2 * Len(AcceptedScope) + 1
              /\ args[Len(args)] = Given(search.query)
              /\ \A j \in 1..Len(AcceptedScope) :
                    /\ args[2 * j - 1] = Fixed(stext.onlyin)
                    /\ args[2 * j] =
                          Given(validatePath(AcceptedScope[j], symlinks, cwd).path)

\* A search over a directory written with "..", a rejected directory and a
\* second accepted one has run mdfind.
C21_Witness ==
    /\ search.op = "search"
    /\ spc # "ready"
    /\ Len(execLog) = 1
    /\ Len(search.scope) = 3
    /\ Len(AcceptedScope) = 2
    /\ AcceptedScope[1].str # validatePath(AcceptedScope[1], symlinks, cwd).path
    /\ Len(MdfindCommands) = 1

-----------------------------------------------------------------------------
(* Properties of setXattrs calls in flight together *)

\* Call c took a turn of its loop for a name to set, with create_only.
CreateOnlyTurn(c) ==
    /\ calls[c].xpc = "set_loop"
    /\ calls'[c].idx = calls[c].idx + 1
    /\ calls[c].request.createOnly
    /\ calls[c].request.attrs[calls[c].idx].value.type # "null"

\* The name of the turn call c is at.
TurnName(c) == calls[c].request.attrs[calls[c].idx].name

\* Call c ran xattr -w in this step.
IssuedWrite(c) ==
    /\ Len(execLog') = Len(execLog) + 1
    /\ execLog'[Len(execLog')].args[1] = Fixed(xtext.w)

\* C22: a create_only call whose listing of the file succeeded runs xattr -w
\* for no name that is on the file when the write is made, also while
\* another call works on the same file: such a name is added to failed with
\* 'Attribute already exists' and its value stays as it was.
C22_CreateOnlyNeverOverwrites ==
    [][\A c \in Callers :
          ( /\ CreateOnlyTurn(c)
            /\ calls[c].listTool = "ok"
            /\ TurnName(c) \in DOMAIN store )
          => /\ ~IssuedWrite(c)
             /\ store'[TurnName(c)] = store[TurnName(c)]
             /\ calls'[c].failedItems =
                    Append(calls[c].failedItems,
                           [name |-> TurnName(c), error |-> xtext.alreadyExists])]_vars

-----------------------------------------------------------------------------
(* Properties of the HTTP server *)

-----------------------------------------------------------------------------
(* Properties of the InterLock socket adapter *)

\* The request types of FG_SIGNALS that have a response constant, each
\* with that constant.
ResponseConstants ==
    { <<FG_SIGNALS.XATTR_QUERY, FG_SIGNALS.XATTR_QUERY_RESPONSE>>,
      <<FG_SIGNALS.XATTR_LIST, FG_SIGNALS.XATTR_LIST_RESPONSE>>,
      <<FG_SIGNALS.SPOTLIGHT_QUERY, FG_SIGNALS.SPOTLIGHT_QUERY_RESPONSE>>,
      <<FG_SIGNALS.WATCH_LIST, FG_SIGNALS.WATCH_LIST_RESPONSE>>,
      <<FG_SIGNALS.FILE_METADATA_REQUEST, FG_SIGNALS.FILE_METADATA_RESPONSE>>,
      <<FG_SIGNALS.STATUS_REQUEST, FG_SIGNALS.STATUS_RESPONSE>> }

\* C24: the signal sendResponse emits for a request of a type that has a
\* response constant in FG_SIGNALS is of the type of that constant.
C24_ResponseTypeIsTheResponseConstant ==
    lastSent.kind = "response" =>
        \A p \in ResponseConstants :
            lastSent.request = p[1] => lastSent.type = Numbered(p[2])

\* C27: at most one heartbeat timer is set at any time; once a
\* stopInterlock call has completed, and until startInterlock is called
\* again, no heartbeat timer is set and sendSignal and broadcastSignal give
\* nothing to a socket.
C27_OneHeartbeatTimerNoneAfterStop ==
    /\ Cardinality(timers) <= 1
    /\ stopped =>
          /\ timers = {}
          /\ \A type \in OutgoingTypes : sendSignal(socket, type) = <<>>
          /\ \A type \in BroadcastNames : broadcastSignal(socket, type) = <<>>

-----------------------------------------------------------------------------
(* Properties of the results of spotlightSearch *)

\* How many of the paths mdfind found isPathAllowed accepts.
AllowedFound ==
    Cardinality({i \in 1..Len(foundPaths) :
                    isPathAllowed(Str(foundPaths[i]), symlinks, cwd)})

\* C25: spotlightSearch returns at most limit results, count is the number
\* of results returned, and truncated is true exactly when mdfind found more
\* than limit paths that isPathAllowed accepts.
C25_AtMostLimitResults ==
    (search.op = "search" /\ sresponse.kind = "return") =>
        /\ Len(sresponse.value.results) <= search.limit
        /\ sresponse.value.count = Len(sresponse.value.results)
        /\ sresponse.value.truncated <=> (AllowedFound > search.limit)

\* A search with limit 1 found two allowed paths and returned one result,
\* truncated.
C25_Witness ==
    /\ search.op = "search"
    /\ sresponse.kind = "return"
    /\ search.limit = 1
    /\ AllowedFound = 2
    /\ Len(sresponse.value.results) = 1
    /\ sresponse.value.truncated

\* The names the caller asked for that are tokens.
RequestedTokens ==
    {search.attributes[i].str :
        i \in {k \in 1..Len(search.attributes) : IsToken(search.attributes[k])}}

\* The mdls commands that were run.
MdlsCommands == SelectSeq(execLog, LAMBDA c : c.file = stext.mdls)

\* C26: the attributes of a search result are of names the caller asked
\* for and sanitizeAttributes kept, whatever names the lines of mdls carry;
\* when sanitizeAttributes keeps none of the names asked for, mdls is not
\* run and no result has attributes.
C26_AttributesAreRequestedAndSafe ==
    search.op = "search" =>
        /\ \A i \in 1..Len(results) :
              results[i].kind = "result" =>
                  DOMAIN results[i].attributes \subseteq RequestedTokens
        /\ RequestedTokens = {} =>
              /\ MdlsCommands = <<>>
              /\ \A i \in 1..Len(results) : results[i].attributes = <<>>

\* For a caller that asked for "a;" and kMDItemDisplayName, a result got
\* the value of kMDItemDisplayName from an output of mdls that also has a
\* line of another name.
C26_Witness ==
    /\ search.op = "search"
    /\ Len(search.attributes) = 2
    /\ \E i \in 1..Len(results) :
          /\ results[i].kind = "result"
          /\ DOMAIN results[i].attributes = {AttrDisplayName}
          /\ results[i].attributes[AttrDisplayName] =
                parseSpotlightValue(<<40, 34, 97, 34, 44, 32, 98, 41>>)
=============================================================================
